---- MODULE Spec2Model ----
(***************************************************************************)
(* Model of the live trading session of AdvancedTradingBot                 *)
(* (trading_bot.py) together with the user controls reached through        *)
(* routes.py.  One bot instance; execute_trade is a coroutine whose        *)
(* suspension points are the values of pc; pause, resume, configure_trade  *)
(* and the break_after_win route are synchronous calls that may run        *)
(* whenever the coroutine is suspended.                                    *)
(*                                                                         *)
(* Numbers: money amounts that the code multiplies by 1.5^n or 1.8^n and   *)
(* the confidence are exact rationals [n, d]; the adaptive threshold is    *)
(* kept in hundredths.  Prices are integers in hundredths of a unit.       *)
(***************************************************************************)
EXTENDS Integers, Sequences, FiniteSets, TLC

\* ------------------------------------------------------------------ bounds
MaxTrades == 2
MaxSeriesLen == 6
MaxRuns == 2
\* clients of the web application, each with its own cookie and API token
NumClients == 2
\* longest digit window handed to analyze_digits, besides the examples
MaxWindowLen == 6

\* ------------------------------------------------------- program constants
max_retries == 3
base_delay == 1
base_confidence_threshold == 60
CacheFreshSeconds == 10
VolatilityWindow == 20
LastDigitsKept == 100
MinHistoryForMl == 10
\* payout_if_win of run_backtest, in tenths
payout_matches == 90
payout_differs == 9
payout_over_under == 10
payout_even_odd == 10
TradeWindowShown == 10

\* ------------------------------------------------------------- arithmetic
Rat(n, d) == [n |-> n, d |-> d]
RatLT(a, b) == a.n * b.d < b.n * a.d
RatLE(a, b) == a.n * b.d <= b.n * a.d
RatEq(a, b) == a.n * b.d = b.n * a.d
RatAdd(a, b) == Rat(a.n * b.d + b.n * a.d, a.d * b.d)
RatMul(a, b) == Rat(a.n * b.n, a.d * b.d)
RatMin(a, b) == IF RatLE(a, b) THEN a ELSE b
RatMax(a, b) == IF RatLE(a, b) THEN b ELSE a

RECURSIVE Pow(_, _)
Pow(b, e) == IF e <= 0 THEN 1 ELSE b * Pow(b, e - 1)

\* (n/d) ** level for an integer level of either sign, as Python's ** gives it
RatPow(n, d, level) ==
    IF level >= 0 THEN Rat(Pow(n, level), Pow(d, level))
    ELSE Rat(Pow(d, 0 - level), Pow(n, 0 - level))

Min(a, b) == IF a <= b THEN a ELSE b
Max(a, b) == IF a >= b THEN a ELSE b

\* ----------------------------------------------------------- digit window
\* int(str(float(p))[-1]) for a price given in hundredths: the shortest
\* decimal form of the float drops a trailing zero of the hundredths
DigitOf(p) == IF p % 10 # 0 THEN p % 10 ELSE (p \div 10) % 10

LastN(s, k) == IF Len(s) <= k THEN s ELSE SubSeq(s, Len(s) - k + 1, Len(s))

LastDigitsOf(prices) ==
    LET tail == LastN(prices, LastDigitsKept)
    IN  [i \in 1..Len(tail) |-> DigitOf(tail[i])]

Count(w, d) == Cardinality({i \in 1..Len(w) : w[i] = d})
Present(w) == {w[i] : i \in 1..Len(w)}
FirstIndex(w, d) == CHOOSE i \in 1..Len(w) : w[i] = d /\ \A j \in 1..(i-1) : w[j] # d

\* Counter(w).most_common(1)[0][0]: highest count, first inserted on a tie
MostCommon(w) ==
    CHOOSE d \in Present(w) : \A e \in Present(w) :
        \/ Count(w, d) > Count(w, e)
        \/ Count(w, d) = Count(w, e) /\ FirstIndex(w, d) <= FirstIndex(w, e)

\* Counter(w).most_common()[-1][0]: lowest count, last inserted on a tie
LeastCommon(w) ==
    CHOOSE d \in Present(w) : \A e \in Present(w) :
        \/ Count(w, d) < Count(w, e)
        \/ Count(w, d) = Count(w, e) /\ FirstIndex(w, d) >= FirstIndex(w, e)

CountIn(w, S) == Cardinality({i \in 1..Len(w) : w[i] \in S})

\* ------------------------------------------------------------ input sets
\* tick-history answers of the gateway (prices in hundredths)
SnapStable ==
    << 10007, 10007, 10002, 10007, 10007, 10004, 10007, 10002, 10007, 10007,
       10002, 10007, 10004, 10007, 10002, 10007, 10007, 10004, 10002, 10007 >>
SnapVolatile ==
    << 10008, 10000, 10001, 10008, 10002, 10003, 10008, 10004, 10005, 10008,
       10006, 10000, 10001, 10008, 10002, 10003, 10008, 10004, 10005, 10006 >>
SnapShort == << 10003, 10003, 10003, 10003, 10008 >>
Snapshots == {SnapStable, SnapVolatile, SnapShort}

\* random.uniform(-1, 1), sampled
Sentiments == {-1, 0, 1}

\* profit reported by the gateway when a contract is sold
Profits == {-2, 0, 3}

\* the authorize answer: whether it carries a balance, and the balance
AccountInfos ==
    { [has_balance |-> FALSE, balance |-> 0],
      [has_balance |-> TRUE,  balance |-> 300] }

\* arguments of configure_trade as routes.py passes them (unvalidated)
ConfigInputs ==
    { [contract_type |-> "matches",    stake_amount |-> 10, target_profit |-> 5,
       stop_loss |-> 2, martingale_start |-> 1, max_martingale |-> 5, market |-> "R_100"],
      [contract_type |-> "differs",    stake_amount |-> 10, target_profit |-> 6,
       stop_loss |-> 5, martingale_start |-> 2, max_martingale |-> 1, market |-> "R_100"],
      [contract_type |-> "over_under", stake_amount |-> 10, target_profit |-> 5,
       stop_loss |-> 2, martingale_start |-> 1, max_martingale |-> -1, market |-> "R_50"],
      [contract_type |-> "even_odd",   stake_amount |-> 10, target_profit |-> 5,
       stop_loss |-> 2, martingale_start |-> 1, max_martingale |-> 1, market |-> "R_50"] }

\* ------------------------------------------------------------------ state
VARIABLES
    pc,               \* where execute_trade is suspended ("idle": not running)
    ret,              \* what the last execute_trade call returned
    connected,        \* self.connected
    attempt,          \* loop variable of connect()
    last_auth,        \* how the last failed attempt of connect() ended
    account_info,     \* self.account_info: has a 'balance' key, and its value
    paused,           \* self.paused
    break_after_win,  \* self.break_after_win
    trade_config,     \* self.trade_config
    historical_data,  \* self.historical_data = self.cached_market_data
    cached_market,    \* self.cached_market ("none": attribute not set)
    cache_age,        \* seconds since self.last_data_fetch, saturating
    fetch_result,     \* what the last fetch_historical_data call did and returned
    probabilities,    \* local of execute_trade
    confidence,       \* local of execute_trade
    min_confidence,   \* local of execute_trade, in hundredths
    buy               \* the buy request sent to the gateway

liveVars == << pc, ret, connected, attempt, last_auth, account_info, paused,
              break_after_win, trade_config, historical_data, cached_market,
              cache_age, fetch_result, probabilities, confidence, min_confidence,
              buy >>

\* one BackTester instance (backtester.py), as the /backtest route uses it
VARIABLES
    bt_pc,            \* "idle", or "loop": inside the for loop of run_backtest
    bt_last_digits,   \* self.last_digits (self.historical_data has its length)
    bt_config,        \* the config argument of the last run_backtest call
    bt_i,             \* loop variable i of run_backtest
    bt_sim,           \* the simulation locals of run_backtest
    bt_results,       \* self.results
    bt_ret,           \* what the last run_backtest call returned
    bt_runs,          \* number of run_backtest calls made on the instance
    bt_calls          \* what the caller got from each finished run_backtest call

btVars == << bt_pc, bt_last_digits, bt_config, bt_i, bt_sim, bt_results, bt_ret,
            bt_runs, bt_calls >>

\* the module state of routes.py and the cookie sessions of its clients
VARIABLES
    trading_bot,      \* the global trading_bot of routes.py
    flask_session,    \* per client, the api_token stored in its cookie (0: none)
    web_req           \* the request handled last: its client and its route

webVars == << trading_bot, flask_session, web_req >>

\* calls of analyze_digits and get_digit_indicators (digit_analysis.py)
VARIABLES
    da_digits,        \* the digits argument of the last call
    da_analysis,      \* the dictionary analyze_digits returned
    da_indicators     \* the window_size given to get_digit_indicators (0: not
                      \* called) and the due_digits it returned

daVars == << da_digits, da_analysis, da_indicators >>

\* the websocket of a connected session, message by message
VARIABLES
    ws_pc,            \* the ws.recv() the session is suspended at ("idle": none)
    ws_sent,          \* number of requests sent on the connection
    ws_requests,      \* requests the gateway has not answered yet
    ws_streams,       \* subscriptions open at the gateway
    ws_inbox,         \* messages delivered and not yet received, oldest first
    ws_data,          \* the session holds at least 10 digits
    ws_bought,        \* req_id of the last buy the gateway accepted (0: none)
    ws_ret,           \* what the last call returned
    ws_calls          \* number of calls started

wsVars == << ws_pc, ws_sent, ws_requests, ws_streams, ws_inbox, ws_data,
             ws_bought, ws_ret, ws_calls >>

vars == << liveVars, btVars, webVars, daVars, wsVars >>

last_digits == LastDigitsOf(historical_data)

NoRet == [kind |-> "none", profit |-> 0]
NoProb == [total |-> 0, matches |-> 0, differs |-> 0, over |-> 0, under |-> 0,
           even |-> 0, odd |-> 0]
NoConf == Rat(0, 1)
NoBuy == [contract_type |-> "none", barrier |-> -1, amount |-> Rat(0, 1)]
NoFetch == [outcome |-> "none", returned |-> "none"]

InitLive ==
    /\ pc = "idle"
    /\ ret = NoRet
    /\ connected = FALSE
    /\ attempt = 0
    /\ last_auth = "none"
    /\ account_info = [has_balance |-> FALSE, balance |-> 0]
    /\ paused = FALSE
    /\ break_after_win = FALSE
    /\ trade_config =
          [contract_type |-> "matches", stake_amount |-> 10, target_profit |-> 5,
           stop_loss |-> 2, martingale_start |-> 1, max_martingale |-> 5,
           market |-> "R_100", current_martingale_level |-> 0,
           total_profit_loss |-> 0, consecutive_losses |-> 0,
           wins |-> 0, losses |-> 0]
    /\ historical_data = << >>
    /\ cached_market = "none"
    /\ cache_age = 0
    /\ fetch_result = NoFetch
    /\ probabilities = NoProb
    /\ confidence = NoConf
    /\ min_confidence = 0
    /\ buy = NoBuy

\* config argument before any call
NoBtConfig ==
    [contract_type |-> "none", stake_amount |-> 0, martingale_enabled |-> FALSE,
     martingale_start |-> 0, max_martingale |-> 0, min_confidence |-> Rat(0, 1),
     window_size |-> 0]

\* the simulation state variables as run_backtest initializes them;
\* balance, drawdown and the win and loss lists are in tenths
SimStart(stake_amount) ==
    [current_stake |-> stake_amount, balance |-> 0, consecutive_losses |-> 0,
     consecutive_wins |-> 0, max_consecutive_wins |-> 0,
     max_consecutive_losses |-> 0, current_drawdown |-> 0, max_drawdown |-> 0,
     max_drawdown_percentage |-> Rat(0, 1), peak_balance |-> 0,
     winning_trades |-> << >>, losing_trades |-> << >>,
     current_martingale_level |-> 0]

\* 'summary' as run_backtest resets it; keys tells which keys the dict has
SummaryZero ==
    [keys |-> "all", total_trades |-> 0, wins |-> 0, losses |-> 0,
     win_rate |-> Rat(0, 1), profit_loss |-> 0, max_consecutive_wins |-> 0,
     max_consecutive_losses |-> 0, max_drawdown |-> 0,
     max_drawdown_percentage |-> Rat(0, 1),
     profit_factor |-> [inf |-> FALSE, value |-> Rat(0, 1)],
     average_win |-> Rat(0, 1), average_loss |-> Rat(0, 1),
     largest_win |-> 0, largest_loss |-> 0]

\* BackTester.__init__
InitBackTester ==
    /\ bt_pc = "idle"
    /\ bt_last_digits = << >>
    /\ bt_config = NoBtConfig
    /\ bt_i = 0
    /\ bt_sim = SimStart(0)
    /\ bt_results = [trades |-> << >>,
                     summary |-> [SummaryZero EXCEPT !.keys = "none"],
                     equity_curve |-> << >>]
    /\ bt_ret = "none"
    /\ bt_runs = 0
    /\ bt_calls = << >>

\* routes.py as imported: no bot, no client holds a session cookie
NoBot ==
    [is_none |-> TRUE, api_token |-> 0, paused |-> FALSE, break_after_win |-> FALSE,
     stake_amount |-> 0, current_martingale_level |-> 0, total_profit_loss |-> 0]

NoReq == [client |-> 0, route |-> "none"]

Clients == 1..NumClients

InitRoutes ==
    /\ trading_bot = NoBot
    /\ flask_session = [c \in Clients |-> 0]
    /\ web_req = NoReq

\* analyze_digits has not been called
NoAnalysis ==
    [frequency |-> [d \in 0..9 |-> 0], most_common |-> -1, least_common |-> -1,
     streaks |-> << >>, patterns |-> << >>, missing |-> << >>]

NoIndicators == [window_size |-> 0, due_digits |-> << >>]

InitAnalysis ==
    /\ da_digits = << >>
    /\ da_analysis = NoAnalysis
    /\ da_indicators = NoIndicators

\* a connection just opened and authorized, nothing requested
InitChannel ==
    /\ ws_pc = "idle"
    /\ ws_sent = 0
    /\ ws_requests = << >>
    /\ ws_streams = {}
    /\ ws_inbox = << >>
    /\ ws_data = FALSE
    /\ ws_bought = 0
    /\ ws_ret = "none"
    /\ ws_calls = 0

Init == InitLive /\ InitBackTester /\ InitRoutes /\ InitAnalysis /\ InitChannel


\* ------------------------------------------------- decision (pure parts)
\* calculate_probabilities: numerators over total_ticks
CalculateProbabilities(w) ==
    LET total_ticks == IF Len(w) = 0 THEN 1 ELSE Len(w)
        matches_count == IF Len(w) = 0 THEN 0 ELSE Count(w, MostCommon(w))
        least_count == IF Len(w) = 0 THEN 0 ELSE Count(w, LeastCommon(w))
    IN  [total   |-> total_ticks,
         matches |-> matches_count,
         differs |-> total_ticks - least_count,
         over    |-> CountIn(w, 5..9),
         under   |-> CountIn(w, 0..4),
         even    |-> CountIn(w, {0, 2, 4, 6, 8}),
         odd     |-> CountIn(w, {1, 3, 5, 7, 9})]

\* predict_with_ml
PredictWithMl(w) ==
    IF Len(w) = 0
    THEN [lstm_confidence |-> Rat(1, 2), rf_prediction |-> 5]
    ELSE [lstm_confidence |-> Rat(Count(w, MostCommon(w)), Len(w)),
          rf_prediction |-> MostCommon(w)]

\* get_stake_amount
GetStakeAmount(tc, ai) ==
    LET base_stake == Rat(tc.stake_amount, 1)
        level == tc.current_martingale_level
        standard_multiplier == RatPow(2, 1, level)
        total_trades == tc.wins + tc.losses
        \* win_rate = wins / total_trades, 0.5 without trades
        low == total_trades > 0 /\ 10 * tc.wins < 4 * total_trades
        high == total_trades > 0 /\ 10 * tc.wins > 6 * total_trades
        multiplier == IF low /\ level > 2 THEN RatPow(15, 10, level)
                      ELSE IF high THEN standard_multiplier
                      ELSE RatPow(18, 10, level)
        max_stake == Rat(ai.balance * 5, 100)
        stake == RatMin(RatMul(base_stake, multiplier), max_stake)
    IN  IF level = 0 THEN base_stake
        ELSE IF ai.has_balance THEN RatMax(stake, base_stake)
        ELSE RatMul(base_stake, standard_multiplier)

\* contract_params of execute_trade
ContractParams(tc, prob, ml, amount) ==
    CASE tc.contract_type = "matches" ->
            [contract_type |-> "DIGITMATCH", barrier |-> ml.rf_prediction, amount |-> amount]
      [] tc.contract_type = "differs" ->
            [contract_type |-> "DIGITDIFF", barrier |-> ml.rf_prediction, amount |-> amount]
      [] tc.contract_type = "over_under" ->
            IF prob.over > prob.under
            THEN [contract_type |-> "DIGITOVER", barrier |-> 4, amount |-> amount]
            ELSE [contract_type |-> "DIGITUNDER", barrier |-> 5, amount |-> amount]
      [] tc.contract_type = "even_odd" ->
            IF prob.even > prob.odd
            THEN [contract_type |-> "DIGITEVEN", barrier |-> -1, amount |-> amount]
            ELSE [contract_type |-> "DIGITODD", barrier |-> -1, amount |-> amount]

\* probability of the configured family, as the confidence blend reads it
FamilyProbability(ct, prob) ==
    CASE ct = "matches"    -> Rat(prob.matches, prob.total)
      [] ct = "differs"    -> Rat(prob.differs, prob.total)
      [] ct = "over_under" -> Rat(Max(prob.over, prob.under), prob.total)
      [] ct = "even_odd"   -> Rat(Max(prob.even, prob.odd), prob.total)

\* confidence = p*0.5 + lstm_confidence*0.3 + (sentiment+1)/2*0.2
BlendConfidence(ct, prob, ml, sentiment) ==
    RatAdd(RatAdd(RatMul(FamilyProbability(ct, prob), Rat(5, 10)),
                  RatMul(ml.lstm_confidence, Rat(3, 10))),
           RatMul(Rat(sentiment + 1, 2), Rat(2, 10)))

\* the volatility term applied to windows shorter than 20 digits as well
AdaptiveThreshold_ShortWindow(wins, losses, w) ==
    LET total_trades == wins + losses
        confidence_adjustment ==
            IF total_trades > 0
            THEN IF 10 * wins > 6 * total_trades THEN -5
                 ELSE IF 10 * wins < 4 * total_trades THEN 5 ELSE 0
            ELSE 0
        unique_digits == Cardinality(Present(LastN(w, VolatilityWindow)))
        volatility_adjustment ==
            IF unique_digits <= 3 THEN -3
            ELSE IF unique_digits >= 8 THEN 3 ELSE 0
    IN  Max(50, Min(75, base_confidence_threshold + confidence_adjustment
                          + volatility_adjustment))

\* the adaptive threshold, in hundredths
AdaptiveThreshold(wins, losses, w) ==
    LET total_trades == wins + losses
        confidence_adjustment ==
            IF total_trades > 0
            THEN IF 10 * wins > 6 * total_trades THEN -5
                 ELSE IF 10 * wins < 4 * total_trades THEN 5 ELSE 0
            ELSE 0
        unique_digits == Cardinality(Present(LastN(w, VolatilityWindow)))
        volatility_adjustment ==
            IF Len(w) >= VolatilityWindow
            THEN IF unique_digits <= 3 THEN -3
                 ELSE IF unique_digits >= 8 THEN 3 ELSE 0
            ELSE 0
    IN  Max(50, Min(75, base_confidence_threshold + confidence_adjustment
                          + volatility_adjustment))

\* the gate compared against the base threshold instead of the adaptive one
ConfidenceTooLow_Base(conf, thr) == RatLT(conf, Rat(base_confidence_threshold, 100))

\* if confidence < min_confidence: skip
ConfidenceTooLow(conf, thr) == RatLT(conf, Rat(thr, 100))

\* ------------------------------------------------- settlement (pure parts)
\* the loss branch without the min(..., max_martingale)
AdvanceMartingale_Unsaturated(tc, is_win) ==
    IF is_win
    THEN [tc EXCEPT !.wins = @ + 1,
                    !.consecutive_losses = 0,
                    !.current_martingale_level = 0]
    ELSE [tc EXCEPT !.losses = @ + 1,
                    !.consecutive_losses = @ + 1,
                    !.current_martingale_level =
                        IF tc.consecutive_losses + 1 >= tc.martingale_start
                        THEN @ + 1 ELSE @]

\* the win/loss branch of the 'sold' handler
AdvanceMartingale(tc, is_win) ==
    IF is_win
    THEN [tc EXCEPT !.wins = @ + 1,
                    !.consecutive_losses = 0,
                    !.current_martingale_level = 0]
    ELSE [tc EXCEPT !.losses = @ + 1,
                    !.consecutive_losses = @ + 1,
                    !.current_martingale_level =
                        IF tc.consecutive_losses + 1 >= tc.martingale_start
                        THEN Min(@ + 1, tc.max_martingale) ELSE @]

\* the flag honoured on any settlement
BreakNow_AnyOutcome(is_win, baw) == baw

\* if is_win and self.break_after_win
BreakNow(is_win, baw) == is_win /\ baw

\* the limits compared strictly
LimitReached_Strict(tc) ==
    \/ tc.total_profit_loss > tc.target_profit
    \/ tc.total_profit_loss < 0 - tc.stop_loss

\* target profit or stop loss reached
LimitReached(tc) ==
    \/ tc.total_profit_loss >= tc.target_profit
    \/ tc.total_profit_loss <= 0 - tc.stop_loss


\* ---------------------------------------------------------------- actions
Stats == << trade_config.wins, trade_config.losses, trade_config.consecutive_losses,
            trade_config.current_martingale_level, trade_config.total_profit_loss >>

\* the locals that no returned value carries are gone
DropLocals ==
    /\ confidence' = NoConf
    /\ min_confidence' = 0

Return(kind, profit) ==
    /\ pc' = "idle"
    /\ ret' = [kind |-> kind, profit |-> profit]
    /\ probabilities' = NoProb
    /\ buy' = NoBuy
    /\ fetch_result' = NoFetch
    /\ DropLocals

\* the skip result carries the confidence and the threshold
ReturnSkipped(conf, thr) ==
    /\ pc' = "idle"
    /\ ret' = [kind |-> "skipped", profit |-> 0]
    /\ probabilities' = NoProb
    /\ buy' = NoBuy
    /\ fetch_result' = NoFetch
    /\ confidence' = conf
    /\ min_confidence' = thr

\* execute_trade is called: the paused check and the connected check
ExecStart ==
    /\ pc = "idle"
    /\ trade_config.wins + trade_config.losses < MaxTrades
    /\ last_auth' = "none"
    /\ IF paused
       THEN Return("paused", 0)
       ELSE /\ pc' = IF connected THEN "fetch1" ELSE "connect"
            /\ ret' = NoRet
            /\ DropLocals
            /\ UNCHANGED << probabilities, buy, fetch_result >>
    /\ UNCHANGED << connected, attempt, account_info, paused, break_after_win,
                    trade_config, historical_data, cached_market, cache_age >>
    /\ UNCHANGED << btVars, webVars, daVars, wsVars >>

\* connect() returned False to execute_trade
ConnectFailed(conn) ==
    /\ connected' = conn
    /\ attempt' = 0
    /\ Return("connect_failed", 0)
    /\ UNCHANGED account_info

\* what an attempt of connect() can meet: websockets.connect, send or recv
\* raising; an error answer to authorize whose message names the token; any
\* other error answer; the authorize answer
AuthOutcomes == {"exception", "token_error", "other_error", "ok"}

\* "token" in error_msg.lower()
TokenProblem(outcome) == outcome = "token_error"

\* the loop runs one iteration too many
MoreAttempts_OneMore(a) == a < max_retries

\* for attempt in range(max_retries): another iteration follows this one
MoreAttempts(a) == a < max_retries - 1

\* one iteration of the retry loop of connect()
ConnectAttempt ==
    /\ pc = "connect"
    /\ \E outcome \in AuthOutcomes :
          /\ last_auth' = IF outcome = "ok" THEN "none" ELSE outcome
          /\ CASE outcome = "exception" ->
                    IF MoreAttempts(attempt)
                    THEN /\ pc' = "backoff"
                         /\ connected' = FALSE
                         /\ UNCHANGED << ret, attempt, account_info, probabilities,
                                         buy, fetch_result, confidence, min_confidence >>
                    ELSE ConnectFailed(FALSE)
               [] outcome \in {"token_error", "other_error"} ->
                    IF TokenProblem(outcome)
                    THEN ConnectFailed(FALSE)
                    ELSE IF MoreAttempts(attempt)
                    THEN \* continue
                         /\ attempt' = attempt + 1
                         /\ connected' = TRUE
                         /\ UNCHANGED << pc, ret, account_info, probabilities, buy,
                                         fetch_result, confidence, min_confidence >>
                    ELSE ConnectFailed(TRUE)
               [] outcome = "ok" ->
                    \E ai \in AccountInfos :
                       /\ account_info' = ai
                       /\ connected' = TRUE
                       /\ attempt' = 0
                       /\ pc' = "fetch1"
                       /\ UNCHANGED << ret, probabilities, buy, fetch_result,
                                       confidence, min_confidence >>
    /\ UNCHANGED << paused, break_after_win, trade_config, historical_data,
                    cached_market, cache_age >>
    /\ UNCHANGED << btVars, webVars, daVars, wsVars >>

\* backoff_time, in seconds, of the sleep that follows a failed attempt
BackoffTime(a) == base_delay * Pow(2, a)

\* asyncio.sleep(backoff_time) is over
Backoff ==
    /\ pc = "backoff"
    /\ pc' = "connect"
    /\ attempt' = attempt + 1
    /\ UNCHANGED << ret, connected, last_auth, account_info, paused, break_after_win,
                    trade_config, historical_data, cached_market, cache_age,
                    fetch_result, probabilities, confidence, min_confidence, buy >>
    /\ UNCHANGED << btVars, webVars, daVars, wsVars >>

\* the cache test without the comparison of the market
CacheFresh_AnyMarket(market) ==
    /\ cached_market # "none"
    /\ cache_age < CacheFreshSeconds

\* the cache test of fetch_historical_data
CacheFresh(market) ==
    /\ cached_market # "none"
    /\ cache_age < CacheFreshSeconds
    /\ cached_market = market

\* where execute_trade goes after a fetch_historical_data call returned
AfterFetch(phase, data) ==
    IF phase = "fetch1" /\ Len(data) = 0 THEN "fetch2"
    ELSE IF phase # "fetch3" /\ Len(LastDigitsOf(data)) < MinHistoryForMl THEN "fetch3"
    ELSE "decide"

\* fetch_historical_data as called by execute_trade (fetch1), by
\* calculate_probabilities (fetch2) and by predict_with_ml (fetch3)
Fetch ==
    /\ pc \in {"fetch1", "fetch2", "fetch3"}
    /\ LET market == trade_config.market
       IN  \/ /\ CacheFresh(market)
              /\ fetch_result' = [outcome |-> "cache_hit", returned |-> "cached"]
              /\ UNCHANGED << historical_data, cached_market, cache_age >>
           \/ /\ ~CacheFresh(market)
              /\ \/ \* an error answer, or an answer without prices
                    /\ \E o \in {"error", "no_prices"} :
                          fetch_result' = [outcome |-> o, returned |-> "empty"]
                    /\ UNCHANGED << historical_data, cached_market, cache_age >>
                 \/ \* send or recv raised
                    /\ fetch_result' =
                          [outcome |-> "exception",
                           returned |-> IF cached_market = market
                                        THEN "cached" ELSE "empty"]
                    /\ UNCHANGED << historical_data, cached_market, cache_age >>
                 \/ \E prices \in Snapshots :
                       /\ fetch_result' = [outcome |-> "prices", returned |-> "prices"]
                       /\ historical_data' = prices
                       /\ cached_market' = market
                       /\ cache_age' = 0
    /\ pc' = AfterFetch(pc, historical_data')
    /\ probabilities' =
          IF pc = "fetch3" THEN probabilities
          ELSE IF pc' = "fetch2" THEN NoProb
          ELSE CalculateProbabilities(LastDigitsOf(historical_data'))
    /\ UNCHANGED << ret, connected, attempt, last_auth, account_info, paused,
                    break_after_win, trade_config, confidence, min_confidence, buy >>
    /\ UNCHANGED << btVars, webVars, daVars, wsVars >>

\* predictions, sentiment, contract parameters, confidence, threshold, and
\* either the skip or the buy request
Decide ==
    /\ pc = "decide"
    /\ \E sentiment \in Sentiments :
          LET ml == PredictWithMl(last_digits)
              params == ContractParams(trade_config, probabilities, ml,
                                       GetStakeAmount(trade_config, account_info))
              conf == BlendConfidence(trade_config.contract_type, probabilities,
                                      ml, sentiment)
              thr == AdaptiveThreshold(trade_config.wins, trade_config.losses,
                                       last_digits)
          IN  IF ConfidenceTooLow(conf, thr)
              THEN ReturnSkipped(conf, thr)
              ELSE \/ /\ pc' = "buy_sent"
                      /\ buy' = params
                      /\ confidence' = conf
                      /\ min_confidence' = thr
                      /\ probabilities' = NoProb
                      /\ fetch_result' = NoFetch
                      /\ UNCHANGED ret
                   \/ \* ws.send raised
                      Return("exception", 0)
    /\ UNCHANGED << connected, attempt, last_auth, account_info, paused,
                    break_after_win, trade_config, historical_data, cached_market,
                    cache_age >>
    /\ UNCHANGED << btVars, webVars, daVars, wsVars >>

\* the failure is booked as a lost trade
GatewayFailure_CountsLoss(kind) ==
    /\ Return(kind, 0)
    /\ trade_config' = [trade_config EXCEPT !.losses = @ + 1,
                                            !.consecutive_losses = @ + 1]
    /\ UNCHANGED << paused, break_after_win >>

\* return {'success': False, 'message': ...} on an error of the gateway
GatewayFailure(kind) ==
    /\ Return(kind, 0)
    /\ UNCHANGED << paused, break_after_win, trade_config >>

\* the answer to the buy request
BuyResponse ==
    /\ pc = "buy_sent"
    /\ \/ GatewayFailure("buy_error")
       \/ GatewayFailure("no_contract_id")
       \/ /\ Return("exception", 0)
          /\ UNCHANGED << paused, break_after_win, trade_config >>
       \/ /\ pc' = "settling"
          /\ UNCHANGED << ret, probabilities, buy, fetch_result, confidence,
                          min_confidence, paused, break_after_win, trade_config >>
    /\ UNCHANGED << connected, attempt, last_auth, account_info, historical_data,
                    cached_market, cache_age >>
    /\ UNCHANGED << btVars, webVars, daVars, wsVars >>

\* the settlement wait given up when the session is paused
Settle_AbortOnPause ==
    /\ pc = "settling"
    /\ IF paused
       THEN /\ Return("paused", 0)
            /\ UNCHANGED << paused, break_after_win, trade_config >>
       ELSE \E profit \in Profits :
               LET is_win == profit > 0
                   tc == AdvanceMartingale(
                            [trade_config EXCEPT !.total_profit_loss = @ + profit], is_win)
               IN  /\ trade_config' = tc
                   /\ paused' = (BreakNow(is_win, break_after_win) \/ LimitReached(tc))
                   /\ break_after_win' =
                         (break_after_win /\ ~BreakNow(is_win, break_after_win))
                   /\ Return("success", profit)
    /\ UNCHANGED << connected, attempt, last_auth, account_info, historical_data,
                    cached_market, cache_age >>
    /\ UNCHANGED << btVars, webVars, daVars, wsVars >>

\* a proposal_open_contract update with status 'sold' is received
Settle ==
    /\ pc = "settling"
    /\ \E profit \in Profits :
          LET is_win == profit > 0
              tc == AdvanceMartingale(
                       [trade_config EXCEPT !.total_profit_loss = @ + profit], is_win)
          IN  /\ trade_config' = tc
              /\ paused' = (paused \/ BreakNow(is_win, break_after_win) \/ LimitReached(tc))
              /\ break_after_win' = (break_after_win /\ ~BreakNow(is_win, break_after_win))
              /\ Return("success", profit)
    /\ UNCHANGED << connected, attempt, last_auth, account_info, historical_data,
                    cached_market, cache_age >>
    /\ UNCHANGED << btVars, webVars, daVars, wsVars >>

\* an error message or an exception ends the settlement wait
SettleFails ==
    /\ pc = "settling"
    /\ \/ GatewayFailure("monitor_error")
       \/ /\ Return("exception", 0)
          /\ UNCHANGED << paused, break_after_win, trade_config >>
    /\ UNCHANGED << connected, attempt, last_auth, account_info, historical_data,
                    cached_market, cache_age >>
    /\ UNCHANGED << btVars, webVars, daVars, wsVars >>

\* pause()
Pause ==
    /\ paused' = TRUE
    /\ UNCHANGED << pc, ret, connected, attempt, last_auth, account_info, break_after_win,
                    trade_config, historical_data, cached_market, cache_age,
                    fetch_result, probabilities, confidence, min_confidence, buy >>
    /\ UNCHANGED << btVars, webVars, daVars, wsVars >>

\* resume()
Resume ==
    /\ paused' = FALSE
    /\ UNCHANGED << pc, ret, connected, attempt, last_auth, account_info, break_after_win,
                    trade_config, historical_data, cached_market, cache_age,
                    fetch_result, probabilities, confidence, min_confidence, buy >>
    /\ UNCHANGED << btVars, webVars, daVars, wsVars >>

\* the /break_after_win route
SetBreakAfterWin ==
    /\ break_after_win' = TRUE
    /\ UNCHANGED << pc, ret, connected, attempt, last_auth, account_info, paused,
                    trade_config, historical_data, cached_market, cache_age,
                    fetch_result, probabilities, confidence, min_confidence, buy >>
    /\ UNCHANGED << btVars, webVars, daVars, wsVars >>

\* configure_trade with the arguments the /execute_trade route passes
ConfigureTrade ==
    /\ \E c \in ConfigInputs :
          trade_config' = [trade_config EXCEPT
                              !.contract_type = c.contract_type,
                              !.stake_amount = c.stake_amount,
                              !.target_profit = c.target_profit,
                              !.stop_loss = c.stop_loss,
                              !.martingale_start = c.martingale_start,
                              !.max_martingale = c.max_martingale,
                              !.market = c.market,
                              !.current_martingale_level = 0]
    /\ UNCHANGED << pc, ret, connected, attempt, last_auth, account_info, paused,
                    break_after_win, historical_data, cached_market, cache_age,
                    fetch_result, probabilities, confidence, min_confidence, buy >>
    /\ UNCHANGED << btVars, webVars, daVars, wsVars >>

\* close()
Close ==
    /\ pc = "idle"
    /\ connected
    /\ connected' = FALSE
    /\ UNCHANGED << pc, ret, attempt, last_auth, account_info, paused,
                    break_after_win, trade_config, historical_data, cached_market,
                    cache_age, fetch_result, probabilities, confidence,
                    min_confidence, buy >>
    /\ UNCHANGED << btVars, webVars, daVars, wsVars >>

\* the freshness window of the cache elapses
Tick ==
    /\ cache_age < CacheFreshSeconds
    /\ cache_age' = CacheFreshSeconds
    /\ UNCHANGED << pc, ret, connected, attempt, last_auth, account_info, paused,
                    break_after_win, trade_config, historical_data, cached_market,
                    fetch_result, probabilities, confidence, min_confidence, buy >>
    /\ UNCHANGED << btVars, webVars, daVars, wsVars >>

Next ==
    \/ ExecStart
    \/ ConnectAttempt
    \/ Backoff
    \/ Fetch
    \/ Decide
    \/ BuyResponse
    \/ Settle
    \/ SettleFails
    \/ Pause
    \/ Resume
    \/ SetBreakAfterWin
    \/ ConfigureTrade
    \/ Close
    \/ Tick

Spec == Init /\ [][Next]_vars

\* ------------------------------------------------------------- backtester
\* Money of the backtest: stake in whole units; profit, balance, drawdown
\* and the win and loss lists in tenths of a unit (the payouts are 9, 0.9
\* and 1.0).  sharpe_ratio, a floating-point square root, is not
\* represented.

\* digit series given to load_data: every series over BtDigits up to
\* MaxSeriesLen, and the pattern 1..9,0 repeated
BtDigits == {2, 5, 8}
ExamplePattern == << 1, 2, 3, 4, 5, 6, 7, 8, 9, 0 >>
ExampleSeries ==
    [k \in 1..(Len(ExamplePattern) * 50) |->
        ExamplePattern[((k - 1) % Len(ExamplePattern)) + 1]]
BtSeries == UNION {[1..n -> BtDigits] : n \in 0..MaxSeriesLen} \cup {ExampleSeries}

\* config of the example run: even_odd, threshold 0.5, window 20
ExampleConfig ==
    [contract_type |-> "even_odd", stake_amount |-> 10, martingale_enabled |-> FALSE,
     martingale_start |-> 1, max_martingale |-> 5, min_confidence |-> Rat(1, 2),
     window_size |-> 20]

\* config dictionaries as the /backtest route builds them
BtConfigs ==
    { [contract_type |-> "matches", stake_amount |-> 1, martingale_enabled |-> TRUE,
       martingale_start |-> 1, max_martingale |-> 2, min_confidence |-> Rat(1, 2),
       window_size |-> 2],
      [contract_type |-> "differs", stake_amount |-> 10, martingale_enabled |-> FALSE,
       martingale_start |-> 1, max_martingale |-> 5, min_confidence |-> Rat(6, 10),
       window_size |-> 3],
      [contract_type |-> "over_under", stake_amount |-> 10, martingale_enabled |-> TRUE,
       martingale_start |-> 2, max_martingale |-> 1, min_confidence |-> Rat(1, 2),
       window_size |-> 2],
      [contract_type |-> "even_odd", stake_amount |-> 10, martingale_enabled |-> TRUE,
       martingale_start |-> 1, max_martingale |-> 1, min_confidence |-> Rat(6, 10),
       window_size |-> 2],
      [contract_type |-> "matches", stake_amount |-> 10, martingale_enabled |-> FALSE,
       martingale_start |-> 1, max_martingale |-> 5, min_confidence |-> Rat(6, 10),
       window_size |-> 0],
      [contract_type |-> "over_under", stake_amount |-> -1, martingale_enabled |-> FALSE,
       martingale_start |-> 1, max_martingale |-> 5, min_confidence |-> Rat(1, 2),
       window_size |-> 1],
      ExampleConfig }

\* sum(q), by halves
RECURSIVE SumSeq(_)
SumSeq(q) ==
    IF Len(q) = 0 THEN 0
    ELSE IF Len(q) = 1 THEN q[1]
    ELSE SumSeq(SubSeq(q, 1, Len(q) \div 2))
         + SumSeq(SubSeq(q, Len(q) \div 2 + 1, Len(q)))

\* max(q) if q else 0, by halves
RECURSIVE MaxSeq(_)
MaxSeq(q) ==
    IF Len(q) = 0 THEN 0
    ELSE IF Len(q) = 1 THEN q[1]
    ELSE Max(MaxSeq(SubSeq(q, 1, Len(q) \div 2)),
             MaxSeq(SubSeq(q, Len(q) \div 2 + 1, Len(q))))

\* predict_next_digit of build_simple_prediction_model
PredictionModel(digit_history) ==
    IF Len(digit_history) = 0 THEN 5 ELSE MostCommon(digit_history)

\* the check at the head of run_backtest looks at the emptiness only
InsufficientData_OnlyEmpty(digits, config) == Len(digits) = 0

\* not self.historical_data or len(self.historical_data) < window_size
InsufficientData(digits, config) ==
    Len(digits) = 0 \/ Len(digits) < config.window_size

\* the loop visits the last index too
LoopStop_Whole(digits) == Len(digits)

\* range(window_size, len(self.last_digits) - 1) stops before this i
LoopStop(digits) == Len(digits) - 1

\* the window reaches the digit it is to predict
BtWindow_Lookahead(digits, i, window_size) ==
    SubSeq(digits, i - window_size + 2, i + 1)

\* self.last_digits[i-window_size:i], i counted from 0
BtWindow(digits, i, window_size) == SubSeq(digits, i - window_size + 1, i)

\* digit statistics of one window: counts over total_ticks
BtProbabilities(window) ==
    LET most_common_digit == IF Len(window) > 0 THEN MostCommon(window) ELSE 5
        least_common_digit == IF Len(window) > 0 THEN LeastCommon(window) ELSE 0
    IN  [total_ticks        |-> Len(window),
         most_common_digit  |-> most_common_digit,
         least_common_digit |-> least_common_digit,
         matches |-> Count(window, most_common_digit),
         differs |-> Len(window) - Count(window, least_common_digit),
         over    |-> CountIn(window, 5..9),
         under   |-> CountIn(window, 0..4),
         even    |-> CountIn(window, {0, 2, 4, 6, 8}),
         odd     |-> CountIn(window, {1, 3, 5, 7, 9})]

\* a tie between over and under selects over
BtContract_TieOver(contract_type, p, next_digit) ==
    CASE contract_type = "matches" ->
            [confidence |-> Rat(p.matches, p.total_ticks),
             is_win |-> next_digit = p.most_common_digit,
             payout_if_win |-> payout_matches, contract_type |-> "DIGITMATCH",
             target_digit |-> p.most_common_digit, avoid_digit |-> -1, barrier |-> -1]
      [] contract_type = "differs" ->
            [confidence |-> Rat(p.differs, p.total_ticks),
             is_win |-> next_digit # p.least_common_digit,
             payout_if_win |-> payout_differs, contract_type |-> "DIGITDIFF",
             target_digit |-> -1, avoid_digit |-> p.least_common_digit, barrier |-> -1]
      [] contract_type = "over_under" ->
            IF p.over >= p.under
            THEN [confidence |-> Rat(p.over, p.total_ticks),
                  is_win |-> next_digit >= 5,
                  payout_if_win |-> payout_over_under, contract_type |-> "DIGITOVER",
                  target_digit |-> -1, avoid_digit |-> -1, barrier |-> 4]
            ELSE [confidence |-> Rat(p.under, p.total_ticks),
                  is_win |-> next_digit < 5,
                  payout_if_win |-> payout_over_under, contract_type |-> "DIGITUNDER",
                  target_digit |-> -1, avoid_digit |-> -1, barrier |-> 5]
      [] contract_type = "even_odd" ->
            IF p.even > p.odd
            THEN [confidence |-> Rat(p.even, p.total_ticks),
                  is_win |-> next_digit % 2 = 0,
                  payout_if_win |-> payout_even_odd, contract_type |-> "DIGITEVEN",
                  target_digit |-> -1, avoid_digit |-> -1, barrier |-> -1]
            ELSE [confidence |-> Rat(p.odd, p.total_ticks),
                  is_win |-> next_digit % 2 = 1,
                  payout_if_win |-> payout_even_odd, contract_type |-> "DIGITODD",
                  target_digit |-> -1, avoid_digit |-> -1, barrier |-> -1]

\* confidence, is_win, payout_if_win and trade_details of one step; a key
\* that trade_details lacks is -1
BtContract(contract_type, p, next_digit) ==
    CASE contract_type = "matches" ->
            [confidence |-> Rat(p.matches, p.total_ticks),
             is_win |-> next_digit = p.most_common_digit,
             payout_if_win |-> payout_matches, contract_type |-> "DIGITMATCH",
             target_digit |-> p.most_common_digit, avoid_digit |-> -1, barrier |-> -1]
      [] contract_type = "differs" ->
            [confidence |-> Rat(p.differs, p.total_ticks),
             is_win |-> next_digit # p.least_common_digit,
             payout_if_win |-> payout_differs, contract_type |-> "DIGITDIFF",
             target_digit |-> -1, avoid_digit |-> p.least_common_digit, barrier |-> -1]
      [] contract_type = "over_under" ->
            IF p.over > p.under
            THEN [confidence |-> Rat(p.over, p.total_ticks),
                  is_win |-> next_digit >= 5,
                  payout_if_win |-> payout_over_under, contract_type |-> "DIGITOVER",
                  target_digit |-> -1, avoid_digit |-> -1, barrier |-> 4]
            ELSE [confidence |-> Rat(p.under, p.total_ticks),
                  is_win |-> next_digit < 5,
                  payout_if_win |-> payout_over_under, contract_type |-> "DIGITUNDER",
                  target_digit |-> -1, avoid_digit |-> -1, barrier |-> 5]
      [] contract_type = "even_odd" ->
            IF p.even > p.odd
            THEN [confidence |-> Rat(p.even, p.total_ticks),
                  is_win |-> next_digit % 2 = 0,
                  payout_if_win |-> payout_even_odd, contract_type |-> "DIGITEVEN",
                  target_digit |-> -1, avoid_digit |-> -1, barrier |-> -1]
            ELSE [confidence |-> Rat(p.odd, p.total_ticks),
                  is_win |-> next_digit % 2 = 1,
                  payout_if_win |-> payout_even_odd, contract_type |-> "DIGITODD",
                  target_digit |-> -1, avoid_digit |-> -1, barrier |-> -1]

\* current_martingale_level and current_stake of one step (levels >= 0)
BtStake(config, sim) ==
    IF config.martingale_enabled /\ sim.consecutive_losses >= config.martingale_start
    THEN LET lvl == Min(sim.consecutive_losses - config.martingale_start + 1,
                        config.max_martingale)
         IN  [sim EXCEPT !.current_martingale_level = lvl,
                         !.current_stake = config.stake_amount * Pow(2, lvl)]
    ELSE [sim EXCEPT !.current_stake = config.stake_amount]

\* a win pays the stake back on top of the payout
BtProfit_StakeBack(is_win, stake, payout_if_win) ==
    IF is_win THEN stake * payout_if_win + stake * 10 ELSE 0 - stake * 10

\* profit of one executed step, in tenths
BtProfit(is_win, stake, payout_if_win) ==
    IF is_win THEN stake * payout_if_win ELSE 0 - stake * 10

\* only a win moves the balance
BtBalance_WinsOnly(balance, profit) ==
    IF profit > 0 THEN balance + profit ELSE balance

\* balance += profit
BtBalance(balance, profit) == balance + profit

\* every step is executed
BtExecutes_Always(config, c) == TRUE

\* if confidence >= min_confidence
BtExecutes(config, c) == RatLE(config.min_confidence, c.confidence)

\* the drawdown is measured from the starting balance instead of the peak
BtDrawdown_FromStart(sim) ==
    LET dd == 0 - sim.balance
    IN  IF sim.balance > sim.peak_balance
        THEN [sim EXCEPT !.peak_balance = sim.balance, !.current_drawdown = 0]
        ELSE [sim EXCEPT !.current_drawdown = dd, !.max_drawdown = Max(@, dd)]

\* peak balance and drawdown after the balance moved
BtDrawdown(sim) ==
    IF sim.balance > sim.peak_balance
    THEN [sim EXCEPT !.peak_balance = sim.balance, !.current_drawdown = 0]
    ELSE LET dd == sim.peak_balance - sim.balance
         IN  IF dd > sim.max_drawdown
             THEN [sim EXCEPT !.current_drawdown = dd,
                              !.max_drawdown = dd,
                              !.max_drawdown_percentage =
                                  IF sim.peak_balance > 0
                                  THEN Rat(dd * 100, sim.peak_balance) ELSE @]
             ELSE [sim EXCEPT !.current_drawdown = dd]

\* a loss does not end the run of wins
BtBook_KeepWinRun(sim, c) ==
    LET profit == BtProfit(c.is_win, sim.current_stake, c.payout_if_win)
        streaks ==
            IF c.is_win
            THEN [sim EXCEPT !.consecutive_wins = @ + 1,
                             !.consecutive_losses = 0,
                             !.winning_trades = Append(@, profit),
                             !.max_consecutive_wins = Max(@, sim.consecutive_wins + 1),
                             !.current_martingale_level = 0]
            ELSE [sim EXCEPT !.consecutive_losses = @ + 1,
                             !.losing_trades = Append(@, 0 - profit),
                             !.max_consecutive_losses =
                                 Max(@, sim.consecutive_losses + 1)]
    IN  BtDrawdown([streaks EXCEPT !.balance = BtBalance(@, profit)])

\* the simulation state after an executed step
BtBook(sim, c) ==
    LET profit == BtProfit(c.is_win, sim.current_stake, c.payout_if_win)
        streaks ==
            IF c.is_win
            THEN [sim EXCEPT !.consecutive_wins = @ + 1,
                             !.consecutive_losses = 0,
                             !.winning_trades = Append(@, profit),
                             !.max_consecutive_wins = Max(@, sim.consecutive_wins + 1),
                             !.current_martingale_level = 0]
            ELSE [sim EXCEPT !.consecutive_losses = @ + 1,
                             !.consecutive_wins = 0,
                             !.losing_trades = Append(@, 0 - profit),
                             !.max_consecutive_losses =
                                 Max(@, sim.consecutive_losses + 1)]
    IN  BtDrawdown([streaks EXCEPT !.balance = BtBalance(@, profit)])

\* the record appended to results['trades']
BtTrade(i, window, next_digit, c, stake, profit, after) ==
    [index |-> i,
     window |-> LastN(window, TradeWindowShown),
     prediction |-> PredictionModel(window),
     actual |-> next_digit,
     is_win |-> c.is_win,
     stake |-> stake,
     profit |-> profit,
     balance |-> after.balance,
     confidence |-> c.confidence,
     martingale_level |-> after.current_martingale_level,
     contract_type |-> c.contract_type,
     target_digit |-> c.target_digit,
     avoid_digit |-> c.avoid_digit,
     barrier |-> c.barrier]

\* the summary statistics computed after the loop
BtSummary(trades, sim) ==
    LET total_trades == Len(trades)
        wins == Cardinality({k \in 1..Len(trades) : trades[k].is_win})
        losses == total_trades - wins
        total_profit ==
            SumSeq([k \in 1..Len(trades) |->
                       IF trades[k].profit > 0 THEN trades[k].profit ELSE 0])
        total_loss ==
            SumSeq([k \in 1..Len(trades) |->
                       IF trades[k].profit < 0 THEN 0 - trades[k].profit ELSE 0])
    IN  [keys |-> "all",
         total_trades |-> total_trades,
         wins |-> wins,
         losses |-> losses,
         win_rate |-> IF total_trades > 0 THEN Rat(wins * 100, total_trades)
                      ELSE Rat(0, 1),
         profit_loss |-> sim.balance,
         max_consecutive_wins |-> sim.max_consecutive_wins,
         max_consecutive_losses |-> sim.max_consecutive_losses,
         max_drawdown |-> sim.max_drawdown,
         max_drawdown_percentage |-> sim.max_drawdown_percentage,
         profit_factor |->
             IF total_loss = 0
             THEN [inf |-> total_profit > 0, value |-> Rat(0, 1)]
             ELSE [inf |-> FALSE, value |-> Rat(total_profit, total_loss)],
         average_win |-> IF wins > 0 THEN Rat(total_profit, wins) ELSE Rat(0, 1),
         average_loss |-> IF losses > 0 THEN Rat(total_loss, losses) ELSE Rat(0, 1),
         largest_win |-> MaxSeq(sim.winning_trades),
         largest_loss |-> MaxSeq(sim.losing_trades)]

\* the log of the run before is kept
FreshResults_KeepLog ==
    [trades |-> bt_results.trades, summary |-> SummaryZero,
     equity_curve |-> << [x |-> 0, y |-> 0] >>]

\* self.results as run_backtest initializes it
FreshResults ==
    [trades |-> << >>, summary |-> SummaryZero,
     equity_curve |-> << [x |-> 0, y |-> 0] >>]

\* what a call that returns no results dictionary hands back: the error
\* dictionary of line 117, or the exception that leaves run_backtest
NoResults == [trades |-> << >>, summary |-> SummaryZero, equity_curve |-> << >>]

\* the caller's record of a call that ended: its config and what it got
Called(config, kind, results) ==
    Append(bt_calls, [config |-> config, ret |-> kind, results |-> results])

\* load_data with a list of {'digit': d} dictionaries
BtLoad ==
    /\ bt_pc = "idle"
    /\ bt_runs = 0
    /\ \E series \in BtSeries : bt_last_digits' = series
    /\ UNCHANGED << bt_pc, bt_config, bt_i, bt_sim, bt_results, bt_ret, bt_runs,
                    bt_calls >>
    /\ UNCHANGED << liveVars, webVars, daVars, wsVars >>

\* run_backtest up to the first iteration of its loop
BtRun ==
    /\ bt_pc = "idle"
    /\ bt_runs < MaxRuns
    /\ bt_runs' = bt_runs + 1
    /\ \E config \in BtConfigs :
          /\ bt_config' = config
          /\ IF InsufficientData(bt_last_digits, config)
             THEN /\ bt_ret' = "error"
                  /\ bt_calls' = Called(config, "error", NoResults)
                  /\ UNCHANGED << bt_pc, bt_i, bt_sim, bt_results >>
             ELSE /\ bt_results' = FreshResults
                  /\ UNCHANGED bt_calls
                  /\ bt_sim' = SimStart(config.stake_amount)
                  /\ bt_i' = config.window_size
                  /\ bt_pc' = "loop"
                  /\ bt_ret' = "none"
    /\ UNCHANGED bt_last_digits
    /\ UNCHANGED << liveVars, webVars, daVars, wsVars >>

\* one iteration of the loop of run_backtest
BtStep ==
    /\ bt_pc = "loop"
    /\ bt_i < LoopStop(bt_last_digits)
    /\ LET window == BtWindow(bt_last_digits, bt_i, bt_config.window_size)
           next_digit == bt_last_digits[bt_i + 1]
       IN  IF Len(window) = 0
           THEN \* the division by total_ticks raises ZeroDivisionError
                /\ bt_pc' = "idle"
                /\ bt_ret' = "exception"
                /\ bt_i' = 0
                /\ bt_sim' = SimStart(0)
                /\ bt_calls' = Called(bt_config, "exception", NoResults)
                /\ UNCHANGED bt_results
           ELSE LET c == BtContract(bt_config.contract_type,
                                    BtProbabilities(window), next_digit)
                    sized == BtStake(bt_config, bt_sim)
                    booked == BtBook(sized, c)
                    profit == BtProfit(c.is_win, sized.current_stake, c.payout_if_win)
                IN  /\ IF BtExecutes(bt_config, c)
                       THEN /\ bt_sim' = booked
                            /\ bt_results' =
                                  [bt_results EXCEPT
                                      !.trades =
                                          Append(@, BtTrade(bt_i, window, next_digit, c,
                                                            sized.current_stake,
                                                            profit, booked)),
                                      !.equity_curve =
                                          Append(@, [x |-> Len(bt_results.trades) + 1,
                                                     y |-> booked.balance])]
                       ELSE /\ bt_sim' = sized
                            /\ UNCHANGED bt_results
                    /\ bt_i' = bt_i + 1
                    /\ UNCHANGED << bt_pc, bt_ret, bt_calls >>
    /\ UNCHANGED << bt_last_digits, bt_config, bt_runs >>
    /\ UNCHANGED << liveVars, webVars, daVars, wsVars >>

\* the loop is over: summary and return
BtFinish ==
    /\ bt_pc = "loop"
    /\ bt_i >= LoopStop(bt_last_digits)
    /\ bt_results' = [bt_results EXCEPT !.summary = BtSummary(bt_results.trades, bt_sim)]
    /\ bt_calls' = Called(bt_config, "results", bt_results')
    /\ bt_pc' = "idle"
    /\ bt_ret' = "results"
    /\ bt_i' = 0
    /\ bt_sim' = SimStart(0)
    /\ UNCHANGED << bt_last_digits, bt_config, bt_runs >>
    /\ UNCHANGED << liveVars, webVars, daVars, wsVars >>

NextBT ==
    \/ BtLoad
    \/ BtRun
    \/ BtStep
    \/ BtFinish

SpecBT == Init /\ [][NextBT]_vars


\* ---------------------------------------------------------- routes.py
\* the stake_amount values a client posts to /execute_trade
WebStakes == {5, 20}

\* AdvancedTradingBot(api_token)
NewBot(api_token) ==
    [is_none |-> FALSE, api_token |-> api_token, paused |-> FALSE,
     break_after_win |-> FALSE, stake_amount |-> 10,
     current_martingale_level |-> 0, total_profit_loss |-> 0]

Req(c, route) == [client |-> c, route |-> route]

\* POST /login. The bot is replaced before the database is touched; db_ok is
\* whether the queries and commits that follow succeed.
RouteLogin ==
    /\ \E c \in Clients : \E api_token \in {0, c} : \E db_ok \in BOOLEAN :
          /\ web_req' = Req(c, "login")
          /\ IF api_token = 0
             THEN UNCHANGED << trading_bot, flask_session >>
             ELSE /\ trading_bot' = NewBot(api_token)
                  /\ flask_session' =
                        IF db_ok THEN [flask_session EXCEPT ![c] = api_token]
                                 ELSE flask_session
    /\ UNCHANGED << liveVars, btVars, daVars, wsVars >>

\* POST /logout. Only a client with a trading session id queries the database.
RouteLogout ==
    /\ \E c \in Clients : \E db_ok \in BOOLEAN :
          /\ web_req' = Req(c, "logout")
          /\ IF flask_session[c] # 0 /\ ~db_ok
             THEN UNCHANGED << trading_bot, flask_session >>
             ELSE /\ flask_session' = [flask_session EXCEPT ![c] = 0]
                  /\ trading_bot' = NoBot
    /\ UNCHANGED << liveVars, btVars, daVars, wsVars >>

\* POST /pause_trading
RoutePauseTrading ==
    /\ \E c \in Clients :
          /\ web_req' = Req(c, "pause_trading")
          /\ trading_bot' = IF trading_bot.is_none THEN trading_bot
                            ELSE [trading_bot EXCEPT !.paused = TRUE]
    /\ UNCHANGED flask_session
    /\ UNCHANGED << liveVars, btVars, daVars, wsVars >>

\* POST /resume_trading
RouteResumeTrading ==
    /\ \E c \in Clients :
          /\ web_req' = Req(c, "resume_trading")
          /\ trading_bot' = IF trading_bot.is_none THEN trading_bot
                            ELSE [trading_bot EXCEPT !.paused = FALSE]
    /\ UNCHANGED flask_session
    /\ UNCHANGED << liveVars, btVars, daVars, wsVars >>

\* POST /break_after_win
RouteBreakAfterWin ==
    /\ \E c \in Clients :
          /\ web_req' = Req(c, "break_after_win")
          /\ trading_bot' = IF trading_bot.is_none THEN trading_bot
                            ELSE [trading_bot EXCEPT !.break_after_win = TRUE]
    /\ UNCHANGED flask_session
    /\ UNCHANGED << liveVars, btVars, daVars, wsVars >>

\* POST /execute_trade: configure_trade on the global bot, then a mock result
RouteExecuteTrade ==
    /\ \E c \in Clients : \E stake_amount \in WebStakes :
          /\ web_req' = Req(c, "execute_trade")
          /\ trading_bot' = IF trading_bot.is_none THEN trading_bot
                            ELSE [trading_bot EXCEPT
                                     !.stake_amount = stake_amount,
                                     !.current_martingale_level = 0]
    /\ UNCHANGED flask_session
    /\ UNCHANGED << liveVars, btVars, daVars, wsVars >>

NextRoutes ==
    \/ RouteLogin
    \/ RouteLogout
    \/ RoutePauseTrading
    \/ RouteResumeTrading
    \/ RouteBreakAfterWin
    \/ RouteExecuteTrade

SpecRoutes == Init /\ [][NextRoutes]_vars


\* ---------------------------------------------------- digit_analysis.py
\* the digit windows analyze_digits is called with
DaDigits == {0, 1, 2, 3, 9}
ExampleWindows ==
    { << 2, 4, 6, 8 >>, << 8, 9, 0, 1 >>, << 3, 3, 3, 3, 1, 1 >>,
      << 2, 4, 6, 8, 0 >>, << 8, 9, 0, 1, 2 >>, << 9, 6, 3, 0, 5 >>,
      << 0, 1, 2, 3, 4, 5, 6, 7, 8, 9, 9 >>, << 1, 8, 3, 6, 5, 4, 7 >>,
      << 1, 2, 1, 2, 1, 2, 1, 2 >>,
      << 3, 1, 2, 1, 2, 1, 2, 1, 2, 1, 2, 1, 2, 1, 2, 1, 2, 1, 2, 1 >> }
DaWindows == UNION {[1..n -> DaDigits] : n \in 0..MaxWindowLen} \cup ExampleWindows

\* digits[a:b] for 0 <= a <= b <= len(digits)
Slice(digits, a, b) == SubSeq(digits, a + 1, b)

\* the concatenation of the lists f[lo], ..., f[hi]
RECURSIVE Cat(_, _, _)
Cat(f, lo, hi) == IF lo > hi THEN << >> ELSE f[lo] \o Cat(f, lo + 1, hi)

\* Counter(digits)
DaCounter(digits) == [d \in Present(digits) |-> Count(digits, d)]

\* {i: frequency.get(i, 0) for i in range(10)}
DaFrequency(frequency) ==
    [i \in 0..9 |-> IF i \in DOMAIN frequency THEN frequency[i] ELSE 0]

\* [i for i in range(10) if i not in frequency]
DaMissing_FromOne(frequency) ==
    Cat([i \in 1..9 |-> IF i \notin DOMAIN frequency THEN << i >> ELSE << >>], 1, 9)
DaMissing(frequency) ==
    Cat([i \in 0..9 |-> IF i \notin DOMAIN frequency THEN << i >> ELSE << >>], 0, 9)

\* least_common of analyze_digits
DaLeastCommon(digits, frequency) ==
    IF Cardinality(DOMAIN frequency) = 10
    THEN LeastCommon(digits)
    ELSE CHOOSE i \in 0..9 : i \notin DOMAIN frequency
                             /\ \A j \in 0..(i - 1) : j \in DOMAIN frequency

\* the streak appended after the loop
LastStreak_Dropped(current_streak) == << >>
LastStreak(current_streak) ==
    IF current_streak.count >= 3 THEN << current_streak >> ELSE << >>

\* the streak loop from index i on
RECURSIVE StreakLoop(_, _, _, _)
StreakLoop(digits, i, current_streak, streaks) ==
    IF i >= Len(digits)
    THEN streaks \o LastStreak(current_streak)
    ELSE IF digits[i + 1] = current_streak.digit
         THEN StreakLoop(digits, i + 1,
                         [current_streak EXCEPT !.count = @ + 1], streaks)
         ELSE StreakLoop(digits, i + 1,
                         [digit |-> digits[i + 1], count |-> 1, start |-> i],
                         IF current_streak.count >= 3
                         THEN Append(streaks, current_streak) ELSE streaks)

DaStreaks(digits) ==
    StreakLoop(digits, 1, [digit |-> digits[1], count |-> 1, start |-> 0], << >>)

\* an entry of patterns; repeats is 0 where the dictionary has no 'repeats'
\* key, difference is 0 where it has no 'difference' key; confidence in
\* hundredths
Pattern(pattern, start, type, repeats, difference, conf) ==
    [pattern |-> pattern, length |-> Len(pattern), start |-> start, type |-> type,
     repeats |-> repeats, difference |-> difference, confidence |-> conf]

\* the while loop counting the repetitions of pattern from pos on
RECURSIVE RepeatCount(_, _, _, _)
RepeatCount(digits, pattern, pos, repeat_count) ==
    IF pos + Len(pattern) <= Len(digits)
       /\ Slice(digits, pos, pos + Len(pattern)) = pattern
    THEN RepeatCount(digits, pattern, pos + Len(pattern), repeat_count + 1)
    ELSE repeat_count

\* the exact repetitions
ExactPatterns(digits) ==
    LET n == Len(digits)
        At(length, start) ==
            LET pattern == Slice(digits, start, start + length)
                repeats == RepeatCount(digits, pattern, start + length * 2, 2)
            IN  IF pattern = Slice(digits, start + length, start + length * 2)
                THEN << Pattern(pattern, start, "exact", repeats, 0,
                                Min(90, 50 + 10 * repeats)) >>
                ELSE << >>
    IN  Cat([length \in 2..(Min(6, n \div 2) - 1) |->
                Cat([start \in 0..(n - length * 2 - 1) |-> At(length, start)],
                    0, n - length * 2 - 1)],
            2, Min(6, n \div 2) - 1)

\* adjusted_diffs: one difference after the wraparound adjustment
AdjustedDiff(d) == IF d < -5 THEN (d + 10) % 10 ELSE IF d > 5 THEN d % 10 ELSE d

\* diffs of a sequence
Diffs(seq) == [i \in 1..(Len(seq) - 1) |-> seq[i + 1] - seq[i]]

\* len(set(q)) == 1
AllSame(q) == Cardinality({q[i] : i \in 1..Len(q)}) = 1

\* the condition under which a window is examined as a progression
IsProgression(diffs) == AllSame(diffs) /\ diffs[1] # 0

\* the arithmetic progressions
ArithmeticPatterns(digits) ==
    LET n == Len(digits)
        At(window, start) ==
            LET seq == Slice(digits, start, start + window)
                diffs == Diffs(seq)
                adjusted_diffs == [i \in 1..Len(diffs) |-> AdjustedDiff(diffs[i])]
            IN  IF IsProgression(diffs) /\ AllSame(adjusted_diffs)
                THEN << Pattern(seq, start, "arithmetic", 0, adjusted_diffs[1],
                                Min(80, 40 + 10 * window)) >>
                ELSE << >>
    IN  Cat([window \in 3..(Min(8, n) - 1) |->
                Cat([start \in 0..(n - window - 1) |-> At(window, start)],
                    0, n - window - 1)],
            3, Min(8, n) - 1)

\* the alternating patterns
AlternatingPatterns(digits) ==
    LET n == Len(digits)
        At(start) ==
            LET seq == Slice(digits, start, start + 6)
                odd_even_alternating ==
                    \A i \in 1..5 : seq[i] % 2 # seq[i + 1] % 2
                high_low_alternating ==
                    \A i \in 1..5 : ~ \/ (seq[i] < 5 /\ seq[i + 1] < 5)
                                      \/ (seq[i] >= 5 /\ seq[i + 1] >= 5)
            IN  (IF odd_even_alternating
                 THEN << Pattern(seq, start, "odd_even_alternation", 0, 0, 75) >>
                 ELSE << >>)
                \o (IF high_low_alternating
                    THEN << Pattern(seq, start, "high_low_alternation", 0, 0, 75) >>
                    ELSE << >>)
    IN  Cat([start \in 0..(n - 6 - 1) |-> At(start)], 0, n - 6 - 1)

\* analyze_digits(digits)
AnalyzeDigits(digits) ==
    IF Len(digits) = 0
    THEN [frequency |-> [i \in 0..9 |-> 0], most_common |-> -1, least_common |-> -1,
          streaks |-> << >>, patterns |-> << >>,
          missing |-> << 0, 1, 2, 3, 4, 5, 6, 7, 8, 9 >>]
    ELSE LET frequency == DaCounter(digits)
         IN  [frequency |-> DaFrequency(frequency),
              most_common |-> MostCommon(digits),
              least_common |-> DaLeastCommon(digits, frequency),
              streaks |-> DaStreaks(digits),
              patterns |-> ExactPatterns(digits) \o ArithmeticPatterns(digits)
                           \o AlternatingPatterns(digits),
              missing |-> DaMissing(frequency)]

\* a caller is about to call analyze_digits on some window
InitDA ==
    /\ InitLive /\ InitBackTester /\ InitRoutes /\ InitChannel
    /\ da_digits \in DaWindows
    /\ da_analysis = NoAnalysis
    /\ da_indicators = NoIndicators

\* the call returns
Analyze ==
    /\ da_analysis = NoAnalysis
    /\ da_analysis' = AnalyzeDigits(da_digits)
    /\ UNCHANGED << da_digits, da_indicators >>
    /\ UNCHANGED << liveVars, btVars, webVars, wsVars >>

\* the window_size values get_digit_indicators is called with (20: default)
IndicatorWindowSizes == {2, 4, 20}

\* the entries of due_digits before the sort, for digits 0..9 in turn;
\* score = absent_count / expected_freq with expected_freq = len(digits) / 10
DueCandidates(digits) ==
    LET n == Len(digits)
        LastPos(d) == CHOOSE i \in 0..(n - 1) :
                         digits[i + 1] = d /\ \A j \in (i + 1)..(n - 1) : digits[j + 1] # d
        Entry(d) ==
            IF d \notin Present(digits)
            THEN << [digit |-> d, absent_count |-> n, score |-> Rat(n, 10)] >>
            ELSE LET absent_count == n - 1 - LastPos(d)
                 IN  IF absent_count * 10 > n
                     THEN << [digit |-> d, absent_count |-> absent_count,
                              score |-> Rat(absent_count * 10, n)] >>
                     ELSE << >>
    IN  Cat([d \in 0..9 |-> Entry(d)], 0, 9)

\* q.sort(key=lambda x: x['score'], reverse=True): descending and stable
SortByScore(q) ==
    LET Before(i, j) == \/ RatLT(q[j].score, q[i].score)
                        \/ RatEq(q[j].score, q[i].score) /\ i < j
        Rank(i) == Cardinality({j \in 1..Len(q) : Before(j, i)})
    IN  [k \in 1..Len(q) |-> q[CHOOSE i \in 1..Len(q) : Rank(i) = k - 1]]

\* get_digit_indicators(digits, window_size): its due_digits
GetDigitIndicators(digits, window_size) ==
    IF Len(digits) < window_size
    THEN [window_size |-> window_size, due_digits |-> << >>]
    ELSE [window_size |-> window_size,
          due_digits |-> LET due_digits == SortByScore(DueCandidates(digits))
                         IN  SubSeq(due_digits, 1, Min(3, Len(due_digits)))]

\* a call of get_digit_indicators on the same digits returns
Indicate ==
    /\ da_indicators = NoIndicators
    /\ \E window_size \in IndicatorWindowSizes :
          da_indicators' = GetDigitIndicators(da_digits, window_size)
    /\ UNCHANGED << da_digits, da_analysis >>
    /\ UNCHANGED << liveVars, btVars, webVars, wsVars >>

NextDA ==
    \/ Analyze
    \/ Indicate

SpecDA == InitDA /\ [][NextDA]_vars


\* ------------------------------------------- the websocket, message level
\* The requests and answers of a session that is connected and not paused,
\* with a stale cache: every fetch goes to the gateway.  A message is
\* [type, req_id]: req_id is the number of the request it answers (a message
\* of a subscription carries the number of the subscribing request); the
\* code never reads it.  The gateway answers the requests in the order they
\* were sent.  Whether execute_trade buys or skips is decided as in Decide
\* and is drawn here.

\* calls started in one session
MaxCalls == 3
\* undelivered messages beyond which the gateway holds its subscription
\* messages back
MaxInbox == 2

\* await self.ws.send(json.dumps(request))
Send(type) ==
    /\ ws_sent' = ws_sent + 1
    /\ ws_requests' = Append(ws_requests, [type |-> type, req_id |-> ws_sent + 1])

\* response = await self.ws.recv(): the oldest undelivered message
Recv ==
    /\ Len(ws_inbox) > 0
    /\ ws_inbox' = Tail(ws_inbox)

\* get_account_info up to its recv: the balance request with subscribe = 1
GetAccountInfo ==
    /\ ws_pc = "idle"
    /\ ws_calls < MaxCalls
    /\ ws_calls' = ws_calls + 1
    /\ Send("balance")
    /\ ws_pc' = "account"
    /\ ws_ret' = "none"
    /\ UNCHANGED << ws_streams, ws_inbox, ws_data, ws_bought >>
    /\ UNCHANGED << liveVars, btVars, webVars, daVars >>

\* get_account_info from its recv: an error answer and any other message
\* both yield an account dictionary
AccountReceived ==
    /\ ws_pc = "account"
    /\ Recv
    /\ ws_pc' = "idle"
    /\ ws_ret' = "account_info"
    /\ UNCHANGED << ws_sent, ws_requests, ws_streams, ws_data, ws_bought, ws_calls >>
    /\ UNCHANGED << liveVars, btVars, webVars, daVars >>

\* execute_trade up to the recv of its first fetch_historical_data
ExecuteTrade ==
    /\ ws_pc = "idle"
    /\ ws_calls < MaxCalls
    /\ ws_calls' = ws_calls + 1
    /\ Send("ticks_history")
    /\ ws_pc' = "fetch1"
    /\ ws_ret' = "none"
    /\ UNCHANGED << ws_streams, ws_inbox, ws_data, ws_bought >>
    /\ UNCHANGED << liveVars, btVars, webVars, daVars >>

\* fetch_historical_data from its recv, and execute_trade up to the next
\* recv: a message without prices returns []; calculate_probabilities
\* fetches again while historical_data is empty, predict_with_ml while
\* fewer than 10 digits are held; then the skip, or the buy request
HistoryReceived ==
    /\ ws_pc \in {"fetch1", "fetch2", "fetch3"}
    /\ Recv
    /\ ws_data' = (ws_data \/ Head(ws_inbox).type = "history")
    /\ IF ws_pc # "fetch3" /\ ~ws_data'
       THEN /\ Send("ticks_history")
            /\ ws_pc' = (IF ws_pc = "fetch1" THEN "fetch2" ELSE "fetch3")
            /\ UNCHANGED ws_ret
       ELSE \/ /\ ws_pc' = "idle"
               /\ ws_ret' = "skipped"
               /\ UNCHANGED << ws_sent, ws_requests >>
            \/ /\ Send("buy")
               /\ ws_pc' = "buy"
               /\ UNCHANGED ws_ret
    /\ UNCHANGED << ws_streams, ws_bought, ws_calls >>
    /\ UNCHANGED << liveVars, btVars, webVars, daVars >>

\* execute_trade from the recv after the buy request to the next recv
BuyReceived ==
    /\ ws_pc = "buy"
    /\ Recv
    /\ IF Head(ws_inbox).type = "error"
       THEN /\ ws_pc' = "idle"
            /\ ws_ret' = "buy_error"
            /\ UNCHANGED << ws_sent, ws_requests >>
       ELSE IF Head(ws_inbox).type # "buy"
       THEN \* response_data.get('buy', {}).get('contract_id') is None
            /\ ws_pc' = "idle"
            /\ ws_ret' = "no_contract_id"
            /\ UNCHANGED << ws_sent, ws_requests >>
       ELSE /\ Send("proposal_open_contract")
            /\ ws_pc' = "settling"
            /\ UNCHANGED ws_ret
    /\ UNCHANGED << ws_streams, ws_data, ws_bought, ws_calls >>
    /\ UNCHANGED << liveVars, btVars, webVars, daVars >>

\* one round of the settlement loop
ContractReceived ==
    /\ ws_pc = "settling"
    /\ Recv
    /\ LET m == Head(ws_inbox)
       IN  IF m.type = "contract_sold"
           THEN ws_pc' = "idle" /\ ws_ret' = "success"
           ELSE IF m.type = "error"
           THEN ws_pc' = "idle" /\ ws_ret' = "monitor_error"
           ELSE UNCHANGED << ws_pc, ws_ret >>
    /\ UNCHANGED << ws_sent, ws_requests, ws_streams, ws_data, ws_bought, ws_calls >>
    /\ UNCHANGED << liveVars, btVars, webVars, daVars >>

\* what the gateway may answer to a request
Answers(type) ==
    IF type = "balance" THEN {"balance", "error"}
    ELSE IF type = "ticks_history" THEN {"history", "error"}
    ELSE IF type = "buy" THEN {"buy", "error"}
    ELSE {"contract_open", "contract_sold", "error"}

\* the gateway answers the oldest request; a balance answer and an answer
\* with an open contract start a subscription (subscribe = 1)
GatewayAnswers ==
    /\ Len(ws_requests) > 0
    /\ LET r == Head(ws_requests)
       IN  \E answer \in Answers(r.type) :
              /\ ws_inbox' = Append(ws_inbox, [type |-> answer, req_id |-> r.req_id])
              /\ ws_streams' =
                    IF answer \in {"balance", "contract_open"}
                    THEN ws_streams \cup {[type |-> answer, req_id |-> r.req_id]}
                    ELSE ws_streams
              /\ ws_bought' = (IF answer = "buy" THEN r.req_id ELSE ws_bought)
    /\ ws_requests' = Tail(ws_requests)
    /\ UNCHANGED << ws_pc, ws_sent, ws_data, ws_ret, ws_calls >>
    /\ UNCHANGED << liveVars, btVars, webVars, daVars >>

\* a message of an open subscription: the balance after a change, or the
\* state of the contract, whose subscription ends when it is sold
GatewayStreams ==
    /\ Len(ws_inbox) < MaxInbox
    /\ \E sub \in ws_streams :
          IF sub.type = "balance"
          THEN /\ ws_inbox' = Append(ws_inbox, sub)
               /\ UNCHANGED ws_streams
          ELSE \E update \in {"contract_open", "contract_sold"} :
                  /\ ws_inbox' = Append(ws_inbox, [sub EXCEPT !.type = update])
                  /\ ws_streams' = IF update = "contract_sold"
                                    THEN ws_streams \ {sub} ELSE ws_streams
    /\ UNCHANGED << ws_pc, ws_sent, ws_requests, ws_data, ws_bought, ws_ret, ws_calls >>
    /\ UNCHANGED << liveVars, btVars, webVars, daVars >>

NextChannel ==
    \/ GetAccountInfo
    \/ AccountReceived
    \/ ExecuteTrade
    \/ HistoryReceived
    \/ BuyReceived
    \/ ContractReceived
    \/ GatewayAnswers
    \/ GatewayStreams

SpecChannel == Init /\ [][NextChannel]_vars


\* ------------------------------------------------------------- properties
level == trade_config.current_martingale_level
\* execute_trade applies a 'sold' update in this step
Settled == pc = "settling" /\ ret'.kind = "success"

\* C1: the martingale level always lies between 0 and max_martingale,
\* whatever configure_trade calls and settlements came before.
C1_LevelWithinMax ==
    0 <= level /\ level <= trade_config.max_martingale

\* C2: a settled win resets consecutive_losses and the level to 0; a settled
\* loss adds exactly 1 to consecutive_losses and raises the level by 1, capped
\* at max_martingale, exactly when the new consecutive_losses reaches
\* martingale_start; the level changes in no other step, except that
\* configure_trade resets it to 0.
C2_AdvanceRule ==
    [][ LET old == trade_config
            new == trade_config'
        IN  /\ Settled /\ ret'.profit > 0 =>
                  /\ new.consecutive_losses = 0
                  /\ new.current_martingale_level = 0
            /\ Settled /\ ret'.profit <= 0 =>
                  /\ new.consecutive_losses = old.consecutive_losses + 1
                  /\ new.current_martingale_level =
                        IF new.consecutive_losses >= old.martingale_start
                        THEN Min(old.current_martingale_level + 1, old.max_martingale)
                        ELSE old.current_martingale_level
            /\ new.current_martingale_level # old.current_martingale_level =>
                  Settled \/ new.current_martingale_level = 0
            /\ new.consecutive_losses # old.consecutive_losses => Settled
      ]_vars

\* a loss settled with the level already at max_martingale: it stays there
C2_Witness ==
    /\ ret.kind = "success" /\ ret.profit < 0
    /\ trade_config.max_martingale > 0
    /\ level = trade_config.max_martingale
    /\ trade_config.consecutive_losses > level

\* C3: whenever the level is above 0, the stake get_stake_amount returns is at
\* most the larger of the base stake and 5% of the account balance, also when
\* the authorize answer carried no balance.
C3_StakeWithinRisk ==
    level > 0 =>
        RatLE(GetStakeAmount(trade_config, account_info),
              RatMax(Rat(trade_config.stake_amount, 1),
                     Rat(5 * account_info.balance, 100)))

\* the multiplier m of the stake rule: 1.5^level if winRate < 0.4 and
\* level > 2, else 2^level if winRate > 0.6, else 1.8^level
StakeRuleMultiplier(tc) ==
    LET n == tc.wins + tc.losses
        win_rate == IF n = 0 THEN Rat(1, 2) ELSE Rat(tc.wins, n)
    IN  IF RatLT(win_rate, Rat(4, 10)) /\ tc.current_martingale_level > 2
        THEN RatPow(15, 10, tc.current_martingale_level)
        ELSE IF RatLT(Rat(6, 10), win_rate)
        THEN RatPow(2, 1, tc.current_martingale_level)
        ELSE RatPow(18, 10, tc.current_martingale_level)

\* C4: get_stake_amount returns the base stake at level 0 and otherwise
\* max(min(base * m, balance * 0.05), base), so never less than the base.
C4_StakeFormula ==
    LET base == Rat(trade_config.stake_amount, 1)
        stake == GetStakeAmount(trade_config, account_info)
    IN  /\ level = 0 => RatEq(stake, base)
        /\ level # 0 =>
              RatEq(stake,
                    RatMax(RatMin(RatMul(base, StakeRuleMultiplier(trade_config)),
                                  Rat(5 * account_info.balance, 100)),
                           base))
        /\ RatLE(base, stake)

\* the threshold of C5 in hundredths: clamp(60 + w + v)
DistinctInLast20(w) ==
    Cardinality({d \in 0..9 : \E i \in 1..Len(w) : i > Len(w) - 20 /\ w[i] = d})
StatedThreshold(wins, losses, w) ==
    LET win_adj == IF wins + losses = 0 THEN 0
                   ELSE IF RatLT(Rat(6, 10), Rat(wins, wins + losses)) THEN -5
                   ELSE IF RatLT(Rat(wins, wins + losses), Rat(4, 10)) THEN 5
                   ELSE 0
        vol_adj == IF Len(w) < 20 THEN 0
                   ELSE IF DistinctInLast20(w) <= 3 THEN -3
                   ELSE IF DistinctInLast20(w) >= 8 THEN 3
                   ELSE 0
        sum == 60 + win_adj + vol_adj
    IN  IF sum < 50 THEN 50 ELSE IF sum > 75 THEN 75 ELSE sum

\* the threshold of the current or the just skipped execute_trade call is held
Decided == pc \in {"buy_sent", "settling"} \/ ret.kind = "skipped"

\* C5: the adaptive threshold lies in [0.5, 0.75] and equals
\* clamp(0.6 + w + v) for the win/loss counts and the digits held.
C5_ThresholdRule ==
    Decided =>
        /\ 50 <= min_confidence /\ min_confidence <= 75
        /\ min_confidence = StatedThreshold(trade_config.wins, trade_config.losses,
                                            last_digits)

\* a threshold raised by both terms: poor win rate and a volatile window
C5_Witness == Decided /\ min_confidence = 68

\* C6: a buy request is sent only with confidence >= the threshold of the
\* same call; a call that skips leaves wins, losses, consecutive_losses,
\* the level and total_profit_loss as they were and sends nothing.
C6_GateRule ==
    [][ pc = "decide" =>
           /\ pc' = "buy_sent" => ~RatLT(confidence', Rat(min_confidence', 100))
           /\ ret'.kind = "skipped" =>
                 /\ RatLT(confidence', Rat(min_confidence', 100))
                 /\ pc' = "idle" /\ buy' = NoBuy
                 /\ Stats' = Stats
      ]_vars

\* a call skipped although its confidence reached the base threshold 0.6
C6_Witness ==
    /\ ret.kind = "skipped"
    /\ RatLE(Rat(60, 100), confidence)
    /\ RatLT(confidence, Rat(min_confidence, 100))

\* C7: once pause() has been called, also while execute_trade is suspended in
\* connect or in the data fetch, no buy request is sent before resume().
C7_NoBuyWhilePaused ==
    [][ paused => ~(pc = "decide" /\ pc' = "buy_sent") ]_vars

\* C8: a pause never ends the settlement wait; the wait ends only with the
\* 'sold' update, applied exactly once with success returned, or with a
\* gateway error or exception that applies nothing.
C8_SettlementCompletes ==
    [][ pc = "settling" =>
           LET old == trade_config
               new == trade_config'
           IN  \/ /\ pc' = "settling"
                  /\ new.wins = old.wins /\ new.losses = old.losses
                  /\ new.total_profit_loss = old.total_profit_loss
               \/ /\ pc' = "idle" /\ ret'.kind = "success"
                  /\ new.total_profit_loss = old.total_profit_loss + ret'.profit
                  /\ IF ret'.profit > 0
                     THEN new.wins = old.wins + 1 /\ new.losses = old.losses
                     ELSE new.wins = old.wins /\ new.losses = old.losses + 1
                  /\ new.consecutive_losses =
                        IF ret'.profit > 0 THEN 0 ELSE old.consecutive_losses + 1
               \/ /\ pc' = "idle" /\ ret'.kind \in {"monitor_error", "exception"}
                  /\ new = old
      ]_vars

\* a loss settled while the session was paused by the user
C8_Witness ==
    /\ pc = "idle" /\ ret.kind = "success" /\ ret.profit < 0
    /\ paused /\ ~LimitReached(trade_config)

\* C9: a settlement that leaves total_profit_loss >= target_profit or
\* <= -stop_loss leaves the session paused.
C9_AutoPause ==
    [][ Settled /\ ( \/ trade_config'.total_profit_loss >= trade_config'.target_profit
                     \/ trade_config'.total_profit_loss <= 0 - trade_config'.stop_loss )
           => paused' ]_vars

\* the stop loss met exactly by a settled loss
C9_Witness ==
    /\ pc = "idle" /\ ret.kind = "success" /\ paused
    /\ trade_config.total_profit_loss = 0 - trade_config.stop_loss

\* C10: with break_after_win set, a settled win pauses the session and
\* clears the flag; a settled loss keeps the flag and pauses only if the
\* session was paused already or a limit is reached.
C10_BreakAfterWin ==
    [][ Settled /\ break_after_win =>
           IF ret'.profit > 0
           THEN paused' /\ ~break_after_win'
           ELSE /\ break_after_win'
                /\ paused' => paused \/ LimitReached(trade_config')
      ]_vars

\* a win below the target settled, the session paused, the flag cleared
C10_Witness ==
    /\ pc = "idle" /\ ret.kind = "success" /\ ret.profit > 0
    /\ paused /\ ~break_after_win
    /\ ~LimitReached(trade_config)

\* ------------------------------------------------------------ connection
\* every await of connect() returns or raises, and asyncio.sleep ends
FairSpec == Spec /\ WF_vars(ConnectAttempt) /\ WF_vars(Backoff)

InConnect == pc \in {"connect", "backoff"}
\* an attempt of connect() ends in this step
AttemptEnds == pc = "connect" /\ (pc' # pc \/ attempt' # attempt)

\* C11: a call of connect() makes at most max_retries attempts and always
\* ends; it returns True at the first attempt that connects and is
\* authorized, and False when the last attempt fails.
C11_BoundedRetry ==
    /\ [][ AttemptEnds =>
             /\ attempt < max_retries
             /\ last_auth' = "none" <=> pc' = "fetch1"
             /\ pc' = "fetch1" => connected'
             /\ attempt = max_retries - 1 /\ last_auth' # "none" =>
                   pc' = "idle" /\ ret'.kind = "connect_failed"
       ]_vars
    /\ (InConnect ~> ~InConnect)

\* connect() has returned False after an exception in its last attempt
C11_Witness ==
    pc = "idle" /\ ret.kind = "connect_failed" /\ last_auth = "exception"

\* C12: an error answer to authorize ends connect() at once with failure;
\* no further attempt follows it.
C12_AuthErrorFatal ==
    [][ AttemptEnds /\ last_auth' \in {"token_error", "other_error"} =>
           pc' = "idle" /\ ret'.kind = "connect_failed" ]_vars

\* C13: whenever connect() has returned False the connected flag is False.
C13_FailedConnectDisconnected ==
    ret.kind = "connect_failed" => ~connected

\* ------------------------------------------------------------------ cache
\* a fetch_historical_data call returns in this step
FetchReturns == pc \in {"fetch1", "fetch2", "fetch3"} /\ pc' # pc

\* C14: a refresh that fails while the cache holds a snapshot of the
\* requested market returns that snapshot.
C14_CacheFallback ==
    [][ /\ FetchReturns
        /\ fetch_result'.outcome \in {"error", "no_prices", "exception"}
        /\ cached_market = trade_config.market
        => fetch_result'.returned = "cached" ]_vars

C16_GatewayErrorNoTrade ==
    [][ /\ pc \in {"buy_sent", "settling"}
        /\ ret'.kind \in {"buy_error", "no_contract_id", "monitor_error"}
        => /\ pc' = "idle"
           /\ trade_config' = trade_config
           /\ paused' = paused ]_vars

\* an error reported while a bought contract was awaited
C16_Witness ==
    pc = "idle" /\ ret.kind = "monitor_error" /\ trade_config.wins + trade_config.losses > 0

\* -------------------------------------------------------------- backtest
\* run_backtest is entered in this step
BtRunCalled == bt_runs' = bt_runs + 1
\* the last run_backtest call returned self.results
RunReturned == bt_pc = "idle" /\ bt_ret = "results"
\* series[i-windowSize .. i-1] for i counted from 0
Seen(i) == [k \in 1..bt_config.window_size |->
               bt_last_digits[i - bt_config.window_size + k]]

\* C17: a run on an empty series, or on one shorter than window_size,
\* returns the insufficient-data error and leaves self.results as it was.
C17_InsufficientData ==
    [][ /\ BtRunCalled
        /\ \/ Len(bt_last_digits) = 0
           \/ Len(bt_last_digits) < bt_config'.window_size
        => /\ bt_ret' = "error"
           /\ bt_pc' = "idle"
           /\ bt_results' = bt_results ]_vars

\* the error returned on a loaded series while the log of an earlier run
\* is still stored
C17_Witness ==
    /\ bt_ret = "error"
    /\ Len(bt_last_digits) > 0
    /\ Len(bt_results.trades) > 0

\* C18: a logged trade with index i carries the contract, target and
\* confidence that follow from series[i-w .. i-1] whatever the digit at i
\* is, its realized digit is series[i], and the indices of the log are
\* strictly increasing.  Every trade is the last of the log in the state
\* that follows its step.
C18_NoLookahead ==
    bt_pc = "loop" /\ Len(bt_results.trades) > 0 =>
        LET n == Len(bt_results.trades)
            t == bt_results.trades[n]
            seen == Seen(t.index)
            p == BtProbabilities(seen)
        IN  /\ bt_config.window_size <= t.index /\ t.index < bt_i
            /\ t.actual = bt_last_digits[t.index + 1]
            /\ t.window = LastN(seen, TradeWindowShown)
            /\ t.prediction = PredictionModel(seen)
            /\ \A d \in 0..9 :
                  LET c == BtContract(bt_config.contract_type, p, d)
                  IN  /\ t.contract_type = c.contract_type
                      /\ t.target_digit = c.target_digit
                      /\ t.avoid_digit = c.avoid_digit
                      /\ t.barrier = c.barrier
                      /\ t.confidence = c.confidence
            /\ \A k \in 1..(n - 1) :
                  bt_results.trades[k].index < bt_results.trades[k + 1].index

\* a log of three trades while the loop is still running
C18_Witness ==
    /\ bt_pc = "loop"
    /\ Len(bt_results.trades) >= 3
    /\ Len(bt_last_digits) <= MaxSeriesLen

\* the confidence of the step at index i of the last run
StepConfidence(i) ==
    BtContract(bt_config.contract_type, BtProbabilities(Seen(i)), 0).confidence

\* every step of the last run has a window and reaches min_confidence
AllStepsConfident ==
    /\ bt_config.window_size > 0
    /\ \A i \in bt_config.window_size .. (Len(bt_last_digits) - 2) :
          RatLE(bt_config.min_confidence, StepConfidence(i))

\* the example run: confidence exactly 0.5 at every step, every step logged
ExampleHolds ==
    bt_last_digits = ExampleSeries /\ bt_config = ExampleConfig =>
        /\ \A i \in 20..498 : RatEq(StepConfidence(i), Rat(1, 2))
        /\ \A i \in 20..498 : \E k \in 1..Len(bt_results.trades) :
              bt_results.trades[k].index = i

\* C19 as stated: with len(series) >= windowSize and every step confident,
\* total_trades = len(series) - windowSize - 1.
C19_TradeCount ==
    RunReturned /\ Len(bt_last_digits) >= bt_config.window_size /\ AllStepsConfident =>
        /\ bt_results.summary.total_trades =
              Len(bt_last_digits) - bt_config.window_size - 1
        /\ ExampleHolds

\* C19 amended: total_trades = len(series) - windowSize - 1 when the series
\* is longer than the window, and 0 when len(series) = windowSize.
C19_TradeCountAmended ==
    RunReturned /\ Len(bt_last_digits) >= bt_config.window_size /\ AllStepsConfident =>
        /\ bt_results.summary.total_trades =
              IF Len(bt_last_digits) > bt_config.window_size
              THEN Len(bt_last_digits) - bt_config.window_size - 1
              ELSE 0
        /\ ExampleHolds

\* the example run has returned with 479 trades
C19_Witness ==
    /\ RunReturned
    /\ bt_last_digits = ExampleSeries /\ bt_config = ExampleConfig
    /\ bt_results.summary.total_trades = 479

\* C20: in every logged trade is_win is the contract's condition on the
\* realized digit, and profit is stake * payout (9, 0.9, 1.0, 1.0) on a win
\* and -stake on a loss; profit is in tenths.
C20_OutcomeRule ==
    \A k \in 1..Len(bt_results.trades) :
        LET t == bt_results.trades[k]
            won == CASE t.contract_type = "DIGITMATCH" -> t.actual = t.target_digit
                     [] t.contract_type = "DIGITDIFF"  -> t.actual # t.avoid_digit
                     [] t.contract_type = "DIGITOVER"  -> t.actual >= 5
                     [] t.contract_type = "DIGITUNDER" -> t.actual < 5
                     [] t.contract_type = "DIGITEVEN"  -> t.actual % 2 = 0
                     [] t.contract_type = "DIGITODD"   -> t.actual % 2 = 1
            payout == CASE t.contract_type = "DIGITMATCH" -> 90
                        [] t.contract_type = "DIGITDIFF"  -> 9
                        [] OTHER -> 10
        IN  /\ t.is_win = won
            /\ t.profit = IF won THEN t.stake * payout ELSE 0 - t.stake * 10

\* a differs log with a lost and a won trade
C20_Witness ==
    \E k, l \in 1..Len(bt_results.trades) :
        /\ bt_results.trades[k].contract_type = "DIGITDIFF"
        /\ bt_results.trades[k].is_win /\ bt_results.trades[k].profit = 90
        /\ ~bt_results.trades[l].is_win /\ bt_results.trades[l].profit = -100

\* C21: in the stored results the balance of the k-th trade is the balance
\* of the trade before it (0 for the first) plus its profit, i.e. the sum
\* of the profits of trades 1..k; the equity curve is (0,0) followed by
\* (k, balance of trade k); after the run summary.profit_loss is the sum of
\* all logged profits.
C21_BalanceAndCurve ==
    bt_results.summary.keys = "all" =>
        LET tr == bt_results.trades
            ec == bt_results.equity_curve
        IN  /\ \A k \in 1..Len(tr) :
                  tr[k].balance = (IF k = 1 THEN 0 ELSE tr[k - 1].balance) + tr[k].profit
            /\ Len(ec) = Len(tr) + 1
            /\ ec[1] = [x |-> 0, y |-> 0]
            /\ \A k \in 1..Len(tr) : ec[k + 1] = [x |-> k, y |-> tr[k].balance]
            /\ bt_pc = "idle" =>
                  bt_results.summary.profit_loss =
                      SumSeq([k \in 1..Len(tr) |-> tr[k].profit])

\* a returned run whose log has a won and a lost trade
C21_Witness ==
    /\ RunReturned
    /\ Len(bt_results.trades) >= 3
    /\ \E k, l \in 1..Len(bt_results.trades) :
          bt_results.trades[k].profit > 0 /\ bt_results.trades[l].profit < 0

\* an iteration of the loop of run_backtest ends in this step
StepDone == bt_pc = "loop" /\ bt_i' = bt_i + 1

\* C22: a step whose confidence is below min_confidence appends no trade
\* and no equity-curve point and leaves balance, peak balance, drawdown
\* and both streak counters as they were.
C22_SkipIsInert ==
    [][ StepDone /\ RatLT(StepConfidence(bt_i), bt_config.min_confidence) =>
           /\ bt_results' = bt_results
           /\ bt_sim'.balance = bt_sim.balance
           /\ bt_sim'.peak_balance = bt_sim.peak_balance
           /\ bt_sim'.current_drawdown = bt_sim.current_drawdown
           /\ bt_sim'.max_drawdown = bt_sim.max_drawdown
           /\ bt_sim'.consecutive_wins = bt_sim.consecutive_wins
           /\ bt_sim'.consecutive_losses = bt_sim.consecutive_losses
      ]_vars

\* the step before was skipped while a losing streak is running
C22_Witness ==
    /\ bt_pc = "loop"
    /\ bt_config.window_size > 0 /\ bt_i > bt_config.window_size
    /\ RatLT(StepConfidence(bt_i - 1), bt_config.min_confidence)
    /\ bt_sim.consecutive_losses > 0

\* C23: profit_factor is the sum of the positive profits over the sum of
\* the absolute negative profits; it is +infinity after a run with at
\* least one win and no loss, and 0 after a run without wins and losses.
C23_ProfitFactor ==
    bt_pc = "idle" /\ bt_results.summary.keys = "all" =>
        LET tr == bt_results.trades
            wins == Cardinality({k \in 1..Len(tr) : tr[k].is_win})
            losses == Len(tr) - wins
            gained == SumSeq([k \in 1..Len(tr) |->
                                 IF tr[k].profit > 0 THEN tr[k].profit ELSE 0])
            lost == SumSeq([k \in 1..Len(tr) |->
                               IF tr[k].profit < 0 THEN 0 - tr[k].profit ELSE 0])
            pf == bt_results.summary.profit_factor
        IN  /\ wins >= 1 /\ losses = 0 => pf.inf
            /\ wins = 0 /\ losses = 0 => ~pf.inf /\ pf.value.n = 0
            /\ losses > 0 => ~pf.inf /\ RatEq(pf.value, Rat(gained, lost))


\* ------------------------------------------------------------------ C24
\* C24: run_backtest is deterministic: any two calls on the same loaded series
\* with the same configuration end the same way and, when they return results,
\* return the same trade log, the same equity curve and the same summary. The
\* first call runs on a newly constructed instance, a later one on an instance
\* that holds what the earlier call left behind.
C24_Deterministic ==
    \A a, b \in 1..Len(bt_calls) :
        bt_calls[a].config = bt_calls[b].config =>
            /\ bt_calls[a].ret = bt_calls[b].ret
            /\ bt_calls[a].results.trades = bt_calls[b].results.trades
            /\ bt_calls[a].results.equity_curve = bt_calls[b].results.equity_curve
            /\ bt_calls[a].results.summary = bt_calls[b].results.summary

\* two calls with the same configuration have returned a log with wins and losses
C24_Witness ==
    /\ Len(bt_calls) = 2
    /\ bt_calls[1].config = bt_calls[2].config
    /\ bt_calls[2].ret = "results"
    /\ bt_calls[2].results.summary.wins > 0
    /\ bt_calls[2].results.summary.losses > 0


\* ------------------------------------------------------------------ C25
\* C25: a configuration with an out-of-range value is rejected before any
\* state is mutated: a call of run_backtest with a negative stake_amount
\* returns at once and leaves the stored results as they were.
C25_NegativeStakeRejected ==
    [][ BtRunCalled /\ bt_config'.stake_amount < 0 =>
            /\ bt_pc' = "idle"
            /\ bt_ret' \notin {"results", "none"}
            /\ bt_results' = bt_results ]_vars


\* ------------------------------------------------------------------ C26
\* the bot that client c logged in with is the one the routes operate on
OwnsBot(c) == flask_session[c] # 0 /\ ~trading_bot.is_none
              /\ trading_bot.api_token = flask_session[c]

\* C26: sessions are independent: no request of another client (its login,
\* logout, pause, resume or configure) replaces or changes the bot, pause flag,
\* martingale state or profit/loss of a client that is logged in.
C26_SessionsIndependent ==
    [][ \A c \in Clients :
            OwnsBot(c) /\ web_req'.client # c => trading_bot' = trading_bot ]_vars


\* ------------------------------------------------------------------ C27
\* analyze_digits has returned
Analyzed == da_analysis # NoAnalysis

\* C27: for every digit window, the empty one included, the frequency map has
\* exactly the keys 0..9, its values sum to the length of the window, and
\* missing lists exactly the digits of frequency 0, each once (all ten for
\* the empty window).
C27_FrequencyAndMissing ==
    Analyzed =>
        LET frequency == da_analysis.frequency
            missing == da_analysis.missing
        IN  /\ DOMAIN frequency = 0..9
            /\ SumSeq([k \in 1..10 |-> frequency[k - 1]]) = Len(da_digits)
            /\ {missing[k] : k \in 1..Len(missing)} = {i \in 0..9 : frequency[i] = 0}
            /\ Len(missing) = Cardinality({i \in 0..9 : frequency[i] = 0})
            /\ Len(da_digits) = 0 => Len(missing) = 10

\* a window of two distinct digits, one of them repeated, has been analyzed
C27_Witness ==
    /\ Analyzed
    /\ Len(da_digits) >= 4
    /\ Len(da_analysis.missing) = 8
    /\ \E i \in 0..9 : da_analysis.frequency[i] >= 3

\* ------------------------------------------------------------------ C28
\* digits has a maximal run of n equal digits from offset s on
MaximalRun(digits, s, n) ==
    /\ s + n <= Len(digits)
    /\ \A i \in (s + 1)..(s + n) : digits[i] = digits[s + 1]
    /\ s = 0 \/ digits[s] # digits[s + 1]
    /\ s + n = Len(digits) \/ digits[s + n + 1] # digits[s + 1]

\* C28: streaks holds exactly the maximal runs of equal digits of length 3 or
\* more, from left to right, each with its digit, length and start offset, a
\* run that ends at the last element included; [3,3,3,3,1,1] gives the single
\* streak of digit 3, count 4, start 0.
C28_Streaks ==
    Analyzed =>
        LET streaks == da_analysis.streaks
        IN  /\ {streaks[k] : k \in 1..Len(streaks)} =
                  {[digit |-> da_digits[r[1] + 1], count |-> r[2], start |-> r[1]] :
                      r \in {q \in (0..Len(da_digits)) \X (3..Len(da_digits)) :
                                MaximalRun(da_digits, q[1], q[2])}}
            /\ \A k \in 1..(Len(streaks) - 1) : streaks[k].start < streaks[k + 1].start
            /\ da_digits = << 3, 3, 3, 3, 1, 1 >> =>
                  streaks = << [digit |-> 3, count |-> 4, start |-> 0] >>

\* two streaks were found and the second one ends at the last element
C28_Witness ==
    /\ Analyzed
    /\ Len(da_analysis.streaks) = 2
    /\ da_analysis.streaks[2].start + da_analysis.streaks[2].count = Len(da_digits)

\* ------------------------------------------------------------------ C29
\* the arithmetic entries of the patterns returned
Arithmetic == {p \in {da_analysis.patterns[k] : k \in 1..Len(da_analysis.patterns)} :
                  p.type = "arithmetic"}

\* C29: arithmetic patterns are found modulo 10: [2,4,6,8] is reported with
\* difference 2 and [8,9,0,1] with the wraparound difference 1, and no run of
\* equal digits is reported as arithmetic.
C29_ArithmeticMod10 ==
    Analyzed =>
        /\ da_digits = << 2, 4, 6, 8 >> => \E p \in Arithmetic : p.difference = 2
        /\ da_digits = << 8, 9, 0, 1 >> => \E p \in Arithmetic : p.difference = 1
        /\ \A p \in Arithmetic : \E i \in 2..Len(p.pattern) : p.pattern[i] # p.pattern[1]


\* ------------------------------------------------------------------ C30
\* C30: inside one connect() call, an attempt that is followed by another one
\* is followed first by the backoff sleep, of 1 s after the first attempt and
\* 2 s after the second, whatever made the attempt fail; the last attempt is
\* followed by no sleep.
C30_BackoffBetweenAttempts ==
    [][ AttemptEnds =>
           /\ InConnect' =>
                 /\ pc' = "backoff"
                 /\ BackoffTime(attempt) = (IF attempt = 0 THEN 1 ELSE 2)
           /\ attempt = max_retries - 1 => pc' # "backoff" ]_vars


\* ------------------------------------------------------------------ C31
\* a step of the loop of run_backtest that logs a trade
TradeLogged == StepDone /\ Len(bt_results'.trades) = Len(bt_results.trades) + 1

\* the martingale state of the simulation as the trade_config of a live bot
\* reads it: base stake, level, and the wins and losses so far
LiveState(config, sim) ==
    [stake_amount |-> config.stake_amount,
     current_martingale_level |-> sim.current_martingale_level,
     wins |-> Len(sim.winning_trades), losses |-> Len(sim.losing_trades)]

\* C31: the stake of every backtest trade is the stake get_stake_amount of the
\* live bot returns for the same martingale state (base stake at level 0,
\* otherwise the multiplier chosen by the win rate, capped by the risk limit
\* and floored by the base stake), for some account balance.
C31_StakeAsLive ==
    [][ TradeLogged =>
           LET sized == BtStake(bt_config, bt_sim)
           IN  \E ai \in AccountInfos :
                  /\ ai.has_balance
                  /\ RatEq(Rat(sized.current_stake, 1),
                           GetStakeAmount(LiveState(bt_config, sized), ai)) ]_vars


\* ------------------------------------------------------------------ C32
\* the target of a backtest contract: the matched digit, the avoided digit or
\* the barrier (-1 for even/odd, where the contract type is the parity)
TargetOf(c) ==
    IF c.contract_type = "DIGITMATCH" THEN c.target_digit
    ELSE IF c.contract_type = "DIGITDIFF" THEN c.avoid_digit
    ELSE c.barrier

\* C32: for the same digit window (the one both the probabilities and the
\* prediction of the live bot were computed from) and contract family the live
\* bot sends the contract type and the target that run_backtest selects; a
\* differs contract avoids the digit whose frequency gave the differs
\* probability.
C32_SharedDecision ==
    [][ ( pc = "decide" /\ pc' = "buy_sent" /\ Len(last_digits) > 0
          /\ probabilities = CalculateProbabilities(last_digits) ) =>
           LET c == BtContract(trade_config.contract_type,
                               BtProbabilities(last_digits), 0)
           IN  /\ buy'.contract_type = c.contract_type
               /\ buy'.barrier = TargetOf(c) ]_vars


\* ------------------------------------------------------------------ C33
\* the largest balance reached up to trade k of the log, 0 at the start
RunningPeak(trades, k) ==
    Max(0, MaxSeq([j \in 1..k |-> trades[j].balance]))

\* C33: max_drawdown of the summary is the largest distance, over the logged
\* trades, between the running peak balance (0 at the start) and the balance
\* after the trade; it is 0 when the balance never falls below its peak.
C33_MaxDrawdown ==
    RunReturned =>
        LET trades == bt_results.trades
            fall == [k \in 1..Len(trades) |->
                        RunningPeak(trades, k) - trades[k].balance]
        IN  bt_results.summary.max_drawdown =
               (IF Len(trades) = 0 THEN 0 ELSE MaxSeq(fall))

\* the balance fell after it had reached a peak above 0
C33_Witness ==
    /\ RunReturned
    /\ bt_results.summary.max_drawdown > 0
    /\ \E k, l \in 1..Len(bt_results.trades) :
          /\ k < l
          /\ bt_results.trades[k].balance > 0
          /\ bt_results.trades[l].balance < bt_results.trades[k].balance

\* ------------------------------------------------------------------ C34
\* the longest run of consecutive trades with is_win = won has length m
LongestRunIs(trades, won, m) ==
    /\ m <= Len(trades)
    /\ m = 0 \/ \E s \in 1..(Len(trades) - m + 1) :
                   \A j \in s..(s + m - 1) : trades[j].is_win = won
    /\ ~ \E s \in 1..(Len(trades) - m) :
            \A j \in s..(s + m) : trades[j].is_win = won

\* C34: max_consecutive_wins and max_consecutive_losses of the summary are the
\* lengths of the longest runs of wins and of losses in the final trade log,
\* and wins + losses = total_trades.
C34_StreakMaxima ==
    RunReturned =>
        LET summary == bt_results.summary
        IN  /\ LongestRunIs(bt_results.trades, TRUE, summary.max_consecutive_wins)
            /\ LongestRunIs(bt_results.trades, FALSE, summary.max_consecutive_losses)
            /\ summary.wins + summary.losses = summary.total_trades
            /\ summary.total_trades = Len(bt_results.trades)

\* a run of two wins was followed by a loss
C34_Witness ==
    /\ RunReturned
    /\ bt_results.summary.max_consecutive_wins >= 2
    /\ \E k \in 3..Len(bt_results.trades) :
          /\ bt_results.trades[k - 2].is_win
          /\ bt_results.trades[k - 1].is_win
          /\ ~bt_results.trades[k].is_win


Indicated == da_indicators # NoIndicators

\* C36: in due_digits a digit that never appeared (absent_count = number of
\* digits) has a score at least as high as every digit that did appear, so the
\* never-seen digits come first in the list.
C36_NeverSeenFirst ==
    Indicated =>
        LET due_digits == da_indicators.due_digits
            NeverSeen(e) == e.absent_count = Len(da_digits)
        IN  \A k, l \in 1..Len(due_digits) :
               NeverSeen(due_digits[k]) /\ ~NeverSeen(due_digits[l]) =>
                   /\ RatLE(due_digits[l].score, due_digits[k].score)
                   /\ k < l


\* ------------------------------------------------------------------ C37
\* C37: no buy request is sent while total_profit_loss >= target_profit or
\* total_profit_loss <= -stop_loss, whatever execute_trade, pause and resume
\* calls came before.
C37_NoBuyWhileBreached ==
    [][ ( pc = "decide" /\ pc' = "buy_sent" ) => ~LimitReached(trade_config) ]_vars


\* ------------------------------------------------------------------ C38
\* C38: execute_trade sends no buy request while the session holds no digit
\* data (every fetch failed or came back empty, the digit frequency is
\* empty), for every contract family and every sentiment.
C38_NoTradeWithoutData ==
    [][ ( pc = "decide" /\ pc' = "buy_sent" ) => Len(last_digits) > 0 ]_vars


\* ------------------------------------------------------------------ C39
\* C39: every trade of the backtest log records a stake that agrees with
\* its recorded martingale level: stake_amount * 2^martingale_level with
\* martingale enabled, stake_amount with martingale disabled.  Every trade
\* is the last of the log in the state that follows its step.
C39_StakeMatchesLevel ==
    bt_pc = "loop" /\ Len(bt_results.trades) > 0 =>
        LET t == bt_results.trades[Len(bt_results.trades)]
        IN  t.stake = IF bt_config.martingale_enabled
                      THEN bt_config.stake_amount * Pow(2, t.martingale_level)
                      ELSE bt_config.stake_amount


\* ------------------------------------------------------------------ C40
\* the session receives a message in this step
Received == Len(ws_inbox') < Len(ws_inbox)

\* C40: the recv of a tick-history request and of a buy request takes the
\* answer to that very request, also while a balance subscription delivers
\* messages on the connection; a buy the gateway accepted is not reported
\* as 'No contract ID received' and is followed by the settlement wait.
C40_RequestResponsePairing ==
    [][ Received /\ ws_pc \in {"fetch1", "fetch2", "fetch3", "buy"} =>
           /\ Head(ws_inbox).req_id = ws_sent
           /\ ws_pc = "buy" /\ ws_bought = ws_sent => ws_pc' = "settling"
      ]_vars

====
